---- MODULE Spec2Model ----
(***************************************************************************)
(* Model of the puzzle correctness core of AI-Tooling-Demo:                *)
(*   - Tilted-Scales/generate.py : the three balance-puzzle strategies     *)
(*     and the batch call of the agent with the merge of its response      *)
(*   - Writing-Equations/validate.py : validate_item, dedupe_items, main   *)
(*   - Writing-Equations/generate.py : call_claude and main                *)
(* Python strings are modelled as sequences of one-character strings, so   *)
(* that strip / lower / substring / str(int) are computed, not assumed.    *)
(***************************************************************************)
EXTENDS Integers, Sequences, FiniteSets, TLC

VARIABLES difficulty, draw, puzzle,                \* Tilted-Scales/generate.py
          count, puzzles, agent, explanations, gen_items, out_file, gpc,
                                                     \* its batch call and merge
          price_agent, price_items, price_file, price_exit, ppc,
                                                     \* Writing-Equations/generate.py
          item, result,                              \* one call of validate_item
          pc, input, items, dropped_dupes, passed, failed, idx, written, run
                                                     \* Writing-Equations/validate.py main

gen_vars == <<difficulty, draw, puzzle>>
item_vars == <<item, result>>
main_vars == <<pc, input, items, dropped_dupes, passed, failed, idx, written, run>>
agent_vars == <<count, puzzles, agent, explanations, gen_items, out_file, gpc>>
price_vars == <<price_agent, price_items, price_file, price_exit, ppc>>
vars == <<gen_vars, agent_vars, price_vars, item_vars, main_vars>>

\* the batch part of Tilted-Scales/generate.py is not running
AgentIdle ==
    /\ count = 0 /\ puzzles = <<>>
    /\ agent = [kind |-> "none", stdout |-> [json |-> FALSE, value |-> [t |-> "none"]]]
    /\ explanations = <<>> /\ gen_items = <<>>
    /\ out_file = [done |-> FALSE, content |-> <<>>] /\ gpc = "idle"

\* Writing-Equations/generate.py is not running
PriceIdle ==
    /\ price_agent = [kind |-> "none", stdout |-> <<>>, returncode |-> 0]
    /\ price_items = <<>>
    /\ price_file = [done |-> FALSE, content |-> <<>>]
    /\ price_exit = 0 /\ ppc = "idle"

(***************************************************************************)
(* Bounds of the model (not program constants).                            *)
(***************************************************************************)
\* shape weights range over the rationals m/D, m in 1..MaxW, D in 1..MaxDenom
MaxW == 7
MaxDenom == 4

(***************************************************************************)
(* Python helpers                                                          *)
(***************************************************************************)
Abs(n) == IF n < 0 THEN -n ELSE n

\* int(x) of the float num/den - 1 (den > 0, num >= 0): truncation toward zero
IntOfQuotientMinusOne(num, den) ==
    IF num >= den THEN (num - den) \div den ELSE 0

DigitChar(d) == <<"0", "1", "2", "3", "4", "5", "6", "7", "8", "9">>[d + 1]

RECURSIVE StrNat(_)
StrNat(n) == IF n < 10 THEN <<DigitChar(n)>>
             ELSE StrNat(n \div 10) \o <<DigitChar(n % 10)>>

\* str(n) for a Python int
StrInt(n) == IF n < 0 THEN <<"-">> \o StrNat(-n) ELSE StrNat(n)

(***************************************************************************)
(* Tilted-Scales/generate.py                                               *)
(***************************************************************************)
SHAPES == <<"s", "t", "c">>
ShapeSet == {SHAPES[i] : i \in 1..Len(SHAPES)}

\* random.sample(vars_list, n): the orderings of n distinct elements
pick_distinct(vars_list, n) ==
    {q \in [1..n -> {vars_list[i] : i \in 1..Len(vars_list)}] :
        \A i, j \in 1..n : i # j => q[i] # q[j]}

\* {X:a, Y:b, Z:c} as a function on the shape symbols
ShapeDict(X, a, Y, b, Z, c) ==
    [sh \in ShapeSet |-> IF sh = X THEN a ELSE IF sh = Y THEN b ELSE c]

ZeroShapes == [sh \in ShapeSet |-> 0]

\* lines 70-80: the ordered pair for k1*X = k2*Y under operator op
prop_answer_swapped(X, Y, k1, k2, op) ==
    IF k1 < k2
    THEN (IF op = "<" THEN <<X, Y>> ELSE <<Y, X>>)
    ELSE (IF op = "<" THEN <<Y, X>> ELSE <<X, Y>>)

prop_answer(X, Y, k1, k2, op) ==
    IF k1 < k2
    THEN (IF op = "<" THEN <<Y, X>> ELSE <<X, Y>>)
    ELSE (IF op = "<" THEN <<X, Y>> ELSE <<Y, X>>)

\* lines 83-90 / 128-135 with the two answer symbols on the wrong sides
easy_inequality_reversed(answer, op) ==
    [left  |-> [shapes |-> [ZeroShapes EXCEPT ![answer[2]] = 1], weight |-> 0],
     right |-> [shapes |-> [ZeroShapes EXCEPT ![answer[1]] = 1], weight |-> 0],
     op    |-> op]

\* lines 83-90 / 128-135: the single-symbol inequality record for an answer
easy_inequality(answer, op) ==
    [left  |-> [shapes |-> [ZeroShapes EXCEPT ![answer[1]] = 1], weight |-> 0],
     right |-> [shapes |-> [ZeroShapes EXCEPT ![answer[2]] = 1], weight |-> 0],
     op    |-> op]

easy_template(op) == <<"_", op, "_">>

\* k3 = 0 when the shared term is not added (line 48), else the drawn value
easy_puzzle_proportional_equality(shapes, k1, k2, addZ, k3draw, op) ==
    LET X == shapes[1]
        Y == shapes[2]
        Z == shapes[3]
        k3 == IF addZ THEN k3draw ELSE 0
        answer == prop_answer(X, Y, k1, k2, op)
    IN [kind          |-> "proportional",
        equality      |-> [left  |-> [shapes |-> ShapeDict(X, k1, Y, 0, Z, k3), weight |-> 0],
                           right |-> [shapes |-> ShapeDict(X, 0, Y, k2, Z, k3), weight |-> 0]],
        ineq_template |-> easy_template(op),
        inequality    |-> easy_inequality(answer, op),
        answer        |-> answer]

\* lines 121-125: the ordered pair for k*X + w1 = k*Y + w2 under operator op
weighted_answer_swapped(X, Y, w1, w2, op) ==
    IF w1 < w2
    THEN (IF op = ">" THEN <<Y, X>> ELSE <<X, Y>>)
    ELSE (IF op = ">" THEN <<X, Y>> ELSE <<Y, X>>)

weighted_answer(X, Y, w1, w2, op) ==
    IF w1 < w2
    THEN (IF op = ">" THEN <<X, Y>> ELSE <<Y, X>>)
    ELSE (IF op = ">" THEN <<Y, X>> ELSE <<X, Y>>)

easy_puzzle_weighted_equality(shapes, w1, w2, k1, op) ==
    LET X == shapes[1]
        Y == shapes[2]
        Z == shapes[3]
        answer == weighted_answer(X, Y, w1, w2, op)
    IN [kind          |-> "weighted",
        equality      |-> [left  |-> [shapes |-> ShapeDict(X, k1, Y, 0, Z, 0), weight |-> w1],
                           right |-> [shapes |-> ShapeDict(X, 0, Y, k1, Z, 0), weight |-> w2]],
        ineq_template |-> easy_template(op),
        inequality    |-> easy_inequality(answer, op),
        answer        |-> answer]

\* lines 163-165 without the division by k1
inequality_weight_undivided(weights, k1) == Abs(weights[2] - weights[1]) - 1

\* lines 163-165: d = (weights[1]-weights[0])/k1 as the exact fraction dnum/k1
\* and inequality_weight = int(abs(d) - 1)
inequality_weight_of(weights, k1) ==
    IntOfQuotientMinusOne(Abs(weights[2] - weights[1]), k1)

\* lines 178-182: d > 0 picks X as the winner
difficult_answer_swapped(X, Y, weights, k1) ==
    IF weights[2] - weights[1] > 0 THEN <<Y, X>> ELSE <<X, Y>>

difficult_answer(X, Y, weights, k1) ==
    IF weights[2] - weights[1] > 0 THEN <<X, Y>> ELSE <<Y, X>>

\* lines 171-174, 185-186: the inequality before the escalation branch
difficult_base_inequality(answer, inequality_weight) ==
    [left  |-> [shapes |-> [ZeroShapes EXCEPT ![answer[1]] = 1], weight |-> 0],
     right |-> [shapes |-> [ZeroShapes EXCEPT ![answer[2]] = 1],
                weight |-> inequality_weight]]

\* lines 190-194 with the offset added to the left side only
escalate_left_only(inequality, Z, weight_offset) ==
    [left  |-> [shapes |-> [inequality.left.shapes EXCEPT ![Z] = 1],
                weight |-> inequality.left.weight + weight_offset],
     right |-> [shapes |-> [inequality.right.shapes EXCEPT ![Z] = 1],
                weight |-> inequality.right.weight]]

\* lines 190-194: the escalation branch
escalate(inequality, Z, weight_offset) ==
    [left  |-> [shapes |-> [inequality.left.shapes EXCEPT ![Z] = 1],
                weight |-> inequality.left.weight + weight_offset],
     right |-> [shapes |-> [inequality.right.shapes EXCEPT ![Z] = 1],
                weight |-> inequality.right.weight + weight_offset]]

\* line 168 / line 195
difficult_template(Z, inequality_weight, escalated, weight_offset) ==
    IF escalated
    THEN <<"_", "+", Z, "+">> \o StrInt(weight_offset) \o <<">", "_", "+", Z, "+">>
         \o StrInt(inequality_weight + weight_offset)
    ELSE <<"_", ">", "_", "+">> \o StrInt(inequality_weight)

\* swap = TRUE when random.sample returns the two weights in reverse order
difficult_puzzle_weighted_equality(shapes, k1, w, w_offset, swap, escalated, weight_offset) ==
    LET X == shapes[1]
        Y == shapes[2]
        Z == shapes[3]
        weights == IF swap THEN <<k1 * (w + w_offset), k1 * w>>
                           ELSE <<k1 * w, k1 * (w + w_offset)>>
        inequality_weight == inequality_weight_of(weights, k1)
        answer == difficult_answer(X, Y, weights, k1)
        base == difficult_base_inequality(answer, inequality_weight)
    IN [kind          |-> "difficult",
        equality      |-> [left  |-> [shapes |-> ShapeDict(X, k1, Y, 0, Z, 0), weight |-> weights[1]],
                           right |-> [shapes |-> ShapeDict(X, 0, Y, k1, Z, 0), weight |-> weights[2]]],
        ineq_template |-> difficult_template(Z, inequality_weight, escalated, weight_offset),
        inequality    |-> IF escalated THEN escalate(base, Z, weight_offset) ELSE base,
        answer        |-> answer]

\* the ranges of the random draws
PropCoeffs == 1..6
SharedCoeffs == 1..4
EasyWeights == 1..6
EasyCoeffs == 1..4
DifficultCoeffs == 1..3
DifficultW == 1..4
DifficultOffsets == 2..4
EscalationOffsets == 1..5
Ops == {">", "<"}

NoPuzzle == [kind |-> "none"]

\* the random draws one call of each strategy can make
ProportionalDraws ==
    {[kind |-> "proportional", shapes |-> shapes, k1 |-> k1, k2 |-> k2,
      addZ |-> addZ, k3 |-> k3, op |-> op] :
        shapes \in pick_distinct(SHAPES, 3), k1 \in PropCoeffs, k2 \in PropCoeffs,
        addZ \in BOOLEAN, k3 \in SharedCoeffs \cup {0}, op \in Ops}

WeightedDraws ==
    {[kind |-> "weighted", shapes |-> shapes, w1 |-> w1, w2 |-> w2, k1 |-> k1, op |-> op] :
        shapes \in pick_distinct(SHAPES, 3), w1 \in EasyWeights, w2 \in EasyWeights,
        k1 \in EasyCoeffs, op \in Ops}

DifficultDraws ==
    {[kind |-> "difficult", shapes |-> shapes, k1 |-> k1, w |-> w, w_offset |-> w_offset,
      swap |-> swap, escalated |-> escalated, weight_offset |-> weight_offset] :
        shapes \in pick_distinct(SHAPES, 3), k1 \in DifficultCoeffs, w \in DifficultW,
        w_offset \in DifficultOffsets, swap \in BOOLEAN, escalated \in BOOLEAN,
        weight_offset \in EscalationOffsets \cup {0}}

\* line 46-47: k2 is drawn from the values != k1; line 59: k3 is drawn only
\* when the shared term is added; line 192 likewise for weight_offset
DrawOk(d) ==
    CASE d.kind = "proportional" -> d.k2 # d.k1 /\ (d.k3 = 0 <=> ~d.addZ)
      [] d.kind = "weighted"     -> d.w2 # d.w1
      [] d.kind = "difficult"    -> (d.weight_offset = 0 <=> ~d.escalated)

\* line 210: one iteration of the easy loop taking the proportional branch
GenEasyProportional ==
    /\ difficulty = "easy"
    /\ puzzle.kind = "none"
    /\ draw.kind = "proportional"
    /\ puzzle' = easy_puzzle_proportional_equality(draw.shapes, draw.k1, draw.k2,
                                                   draw.addZ, draw.k3, draw.op)
    /\ UNCHANGED <<difficulty, draw, agent_vars, price_vars, item_vars, main_vars>>

\* line 212: one iteration of the easy loop taking the weighted branch
GenEasyWeighted ==
    /\ difficulty = "easy"
    /\ puzzle.kind = "none"
    /\ draw.kind = "weighted"
    /\ puzzle' = easy_puzzle_weighted_equality(draw.shapes, draw.w1, draw.w2,
                                               draw.k1, draw.op)
    /\ UNCHANGED <<difficulty, draw, agent_vars, price_vars, item_vars, main_vars>>

\* line 215: one iteration of the difficult loop
GenDifficult ==
    /\ difficulty = "difficult"
    /\ puzzle.kind = "none"
    /\ draw.kind = "difficult"
    /\ puzzle' = difficult_puzzle_weighted_equality(draw.shapes, draw.k1, draw.w,
                     draw.w_offset, draw.swap, draw.escalated, draw.weight_offset)
    /\ UNCHANGED <<difficulty, draw, agent_vars, price_vars, item_vars, main_vars>>

\* the validator is not running
ValIdle ==
    /\ item = [t |-> "none"]
    /\ result = [called |-> FALSE, raised |-> FALSE, ok |-> FALSE, errs |-> <<>>]
    /\ pc = "idle" /\ input = <<>> /\ items = <<>> /\ dropped_dupes = 0
    /\ passed = <<>> /\ failed = <<>> /\ idx = 0
    /\ written = [done |-> FALSE, content |-> <<>>] /\ run = 0

\* the state before a strategy is called: the difficulty argument (line 13)
\* and the values the random source is about to return
GenInit ==
    /\ difficulty \in {"easy", "difficult"}
    /\ draw \in {d \in ProportionalDraws \cup WeightedDraws \cup DifficultDraws : DrawOk(d)}
    /\ (difficulty = "difficult") <=> (draw.kind = "difficult")
    /\ puzzle = NoPuzzle
    /\ AgentIdle
    /\ PriceIdle
    /\ ValIdle

GenNext == GenEasyProportional \/ GenEasyWeighted \/ GenDifficult

GenSpec == GenInit /\ [][GenNext]_vars

(***************************************************************************)
(* Weighing a scale: every shape weighs m/D for some m in 1..MaxW, and a   *)
(* side's total is computed in units of 1/D.                               *)
(***************************************************************************)
Weights == [ShapeSet -> 1..MaxW]
Denoms == 1..MaxDenom

SideTotal(side, wt, D) ==
    side.shapes["s"] * wt["s"] + side.shapes["t"] * wt["t"]
    + side.shapes["c"] * wt["c"] + D * side.weight

Balanced(equality, wt, D) ==
    SideTotal(equality.left, wt, D) = SideTotal(equality.right, wt, D)

Compare(a, op, b) == IF op = ">" THEN a > b ELSE a < b

Satisfiable(equality) == \E D \in Denoms, wt \in Weights : Balanced(equality, wt, D)

CharsOf(str) == {str[i] : i \in 1..Len(str)}

\* C1: every proportional puzzle's answer [a,b] makes "a op b" true under
\* every positive weight assignment that balances k1*X (+k3*Z) = k2*Y (+k3*Z);
\* with '>' a is the symbol with the smaller coefficient, with '<' the larger.
C1_ProportionalAnswerTrue ==
    puzzle.kind = "proportional" =>
        LET a == puzzle.answer[1]
            b == puzzle.answer[2]
            op == puzzle.inequality.op
            coeff(sym) == puzzle.equality.left.shapes[sym]
                          + puzzle.equality.right.shapes[sym]
        IN /\ Satisfiable(puzzle.equality)
           /\ \A D \in Denoms, wt \in Weights :
                Balanced(puzzle.equality, wt, D) => Compare(wt[a], op, wt[b])
           /\ {a, b} = {draw.shapes[1], draw.shapes[2]}
           /\ op = ">" => coeff(a) < coeff(b)
           /\ op = "<" => coeff(a) > coeff(b)

\* the spec's scenario 3: k1 = 2, k2 = 5, op '>' gives [X, Y]
C1_Witness ==
    /\ puzzle.kind = "proportional"
    /\ draw.k1 = 2 /\ draw.k2 = 5 /\ draw.op = ">" /\ draw.addZ
    /\ puzzle.answer = <<draw.shapes[1], draw.shapes[2]>>
    /\ Satisfiable(puzzle.equality)

\* C2: every easy weighted puzzle's answer [a,b] makes "a op b" true under
\* every weight assignment that balances k*X + w1 = k*Y + w2; the symbol on
\* the side with the larger additive weight is the lighter one and sits on
\* the smaller side of the stored operator.
C2_WeightedAnswerTrue ==
    puzzle.kind = "weighted" =>
        LET a == puzzle.answer[1]
            b == puzzle.answer[2]
            op == puzzle.inequality.op
            X == draw.shapes[1]
            Y == draw.shapes[2]
            lighter == IF puzzle.equality.left.weight > puzzle.equality.right.weight
                       THEN X ELSE Y
        IN /\ Satisfiable(puzzle.equality)
           /\ \A D \in Denoms, wt \in Weights :
                Balanced(puzzle.equality, wt, D) =>
                    /\ Compare(wt[a], op, wt[b])
                    /\ \A other \in {X, Y} \ {lighter} : wt[lighter] < wt[other]
           /\ {a, b} = {X, Y}
           /\ lighter = (IF op = ">" THEN b ELSE a)

\* a weighted puzzle whose per-unit gap 5/3 is not an integer
C2_Witness ==
    /\ puzzle.kind = "weighted"
    /\ draw.k1 = 3 /\ draw.w1 = 6 /\ draw.w2 = 1 /\ draw.op = "<"
    /\ puzzle.answer = <<draw.shapes[1], draw.shapes[2]>>
    /\ Satisfiable(puzzle.equality)

\* C3: every difficult puzzle's answer [winner, loser], filled into the
\* stored inequality (winner's terms + left weight > loser's terms + right
\* weight), is true under every weight assignment that balances
\* k*X + weights[0] = k*Y + weights[1].
C3_DifficultAnswerTrue ==
    puzzle.kind = "difficult" =>
        LET winner == puzzle.answer[1]
            loser == puzzle.answer[2]
            ineq == puzzle.inequality
        IN /\ Satisfiable(puzzle.equality)
           /\ {winner, loser} = {draw.shapes[1], draw.shapes[2]}
           /\ ineq.left.shapes[winner] = 1 /\ ineq.left.shapes[loser] = 0
           /\ ineq.right.shapes[loser] = 1 /\ ineq.right.shapes[winner] = 0
           /\ ">" \in CharsOf(puzzle.ineq_template)
           /\ "<" \notin CharsOf(puzzle.ineq_template)
           /\ \A D \in Denoms, wt \in Weights :
                Balanced(puzzle.equality, wt, D) =>
                    SideTotal(ineq.left, wt, D) > SideTotal(ineq.right, wt, D)

\* an escalated difficult puzzle with the two weights swapped (Y is heavier)
C3_Witness ==
    /\ puzzle.kind = "difficult"
    /\ draw.swap /\ draw.escalated /\ draw.k1 = 3 /\ draw.w_offset = 2
    /\ puzzle.answer = <<draw.shapes[2], draw.shapes[1]>>
    /\ Satisfiable(puzzle.equality)

\* the inequality with the shared symbol Z and weight_offset taken off both sides
RemoveShared(inequality, Z, weight_offset) ==
    [left  |-> [shapes |-> [inequality.left.shapes EXCEPT ![Z] = @ - 1],
                weight |-> inequality.left.weight - weight_offset],
     right |-> [shapes |-> [inequality.right.shapes EXCEPT ![Z] = @ - 1],
                weight |-> inequality.right.weight - weight_offset]]

\* C4: in an escalated difficult puzzle both sides carry Z with coefficient 1
\* and the same weight_offset in 1..5; taking them off both sides gives back
\* the base inequality (left weight 0, right weight = gap), and the comparison
\* outcome and the answer are those of the non-escalated puzzle.
C4_EscalationCancels ==
    (puzzle.kind = "difficult" /\ draw.escalated) =>
        LET Z == draw.shapes[3]
            ineq == puzzle.inequality
            plain == difficult_puzzle_weighted_equality(draw.shapes, draw.k1, draw.w,
                         draw.w_offset, draw.swap, FALSE, 0)
            gap == inequality_weight_of(<<puzzle.equality.left.weight,
                                          puzzle.equality.right.weight>>, draw.k1)
            reduced == RemoveShared(ineq, Z, draw.weight_offset)
        IN /\ ineq.left.shapes[Z] = 1 /\ ineq.right.shapes[Z] = 1
           /\ draw.weight_offset \in 1..5
           /\ reduced = plain.inequality
           /\ reduced.left.weight = 0 /\ reduced.right.weight = gap
           /\ reduced.left.shapes[Z] = 0 /\ reduced.right.shapes[Z] = 0
           /\ puzzle.answer = plain.answer
           /\ puzzle.equality = plain.equality
           /\ \A D \in Denoms, wt \in Weights :
                (SideTotal(ineq.left, wt, D) > SideTotal(ineq.right, wt, D))
                <=> (SideTotal(plain.inequality.left, wt, D)
                     > SideTotal(plain.inequality.right, wt, D))

C4_Witness ==
    /\ puzzle.kind = "difficult"
    /\ draw.escalated /\ draw.weight_offset = 5 /\ draw.w_offset = 4
    /\ puzzle.inequality.left.weight = 5 /\ puzzle.inequality.right.weight = 8

(***************************************************************************)
(* Writing-Equations/validate.py                                           *)
(*                                                                         *)
(* JSON / Python values are tagged records:                                *)
(*   [t |-> "none"]          None (JSON null)                              *)
(*   [t |-> "int",  n |-> i] int          [t |-> "bool", n |-> 0 or 1]     *)
(*   [t |-> "str",  s |-> <<chars>>]      [t |-> "list", e |-> <<values>>] *)
(*   [t |-> "dict", d |-> [key |-> value, ...]] (a missing key is missing  *)
(*   from DOMAIN d).                                                       *)
(* An operation that raises in Python is modelled by a ...Raises predicate *)
(* next to the operator that gives its value when it does not raise.       *)
(***************************************************************************)
None == [t |-> "none"]
PyInt(n) == [t |-> "int", n |-> n]
PyBool(b) == [t |-> "bool", n |-> IF b THEN 1 ELSE 0]
PyStr(s) == [t |-> "str", s |-> s]
PyList(e) == [t |-> "list", e |-> e]
PyDict(d) == [t |-> "dict", d |-> d]
EmptyDict == PyDict(<<>>)
EmptyList == PyList(<<>>)
EmptyStr == PyStr(<<>>)

IsNum(v) == v.t \in {"int", "bool"}

\* bool(v)
Truthy(v) ==
    CASE v.t = "none" -> FALSE
      [] v.t \in {"int", "bool"} -> v.n # 0
      [] v.t = "str"  -> v.s # <<>>
      [] v.t = "list" -> v.e # <<>>
      [] v.t = "dict" -> DOMAIN v.d # {}

\* a == b (ints and bools compare by number; values of different types differ)
PyEq(a, b) ==
    IF IsNum(a) /\ IsNum(b) THEN a.n = b.n
    ELSE IF a.t # b.t THEN FALSE
    ELSE a = b

\* k in d, d[k] and d.get(k, default) for a dict d
HasKey(d, k) == k \in DOMAIN d.d
Get(d, k, default) == IF k \in DOMAIN d.d THEN d.d[k] ELSE default

\* v.get(...) raises AttributeError unless v is a dict
GetRaises(v) == v.t # "dict"

\* len(v) raises TypeError for None, int, bool
LenRaises(v) == v.t \in {"none", "int", "bool"}
PyLen(v) ==
    CASE v.t = "list" -> Len(v.e)
      [] v.t = "str"  -> Len(v.s)
      [] v.t = "dict" -> Cardinality(DOMAIN v.d)

\* hash(v) raises TypeError for list and dict
Unhashable(v) == v.t \in {"list", "dict"}

(* ----- str methods on character sequences ----- *)
Whitespace == {" ", "\t", "\n"}

RECURSIVE LStrip(_)
LStrip(s) == IF s # <<>> /\ Head(s) \in Whitespace THEN LStrip(Tail(s)) ELSE s

RECURSIVE RStrip(_)
RStrip(s) == IF s # <<>> /\ s[Len(s)] \in Whitespace
             THEN RStrip(SubSeq(s, 1, Len(s) - 1)) ELSE s

Strip(s) == RStrip(LStrip(s))

UpperChars == <<"A", "B", "C", "D", "E", "F", "G", "H", "I", "J", "K", "L", "M",
                "N", "O", "P", "Q", "R", "S", "T", "U", "V", "W", "X", "Y", "Z">>
LowerChars == <<"a", "b", "c", "d", "e", "f", "g", "h", "i", "j", "k", "l", "m",
                "n", "o", "p", "q", "r", "s", "t", "u", "v", "w", "x", "y", "z">>

LowerChar(c) ==
    IF \E i \in 1..Len(UpperChars) : UpperChars[i] = c
    THEN LowerChars[CHOOSE i \in 1..Len(UpperChars) : UpperChars[i] = c]
    ELSE c

Lower(s) == [i \in 1..Len(s) |-> LowerChar(s[i])]

\* sub in s
Contains(sub, s) ==
    \E i \in 0..(Len(s) - Len(sub)) : SubSeq(s, i + 1, i + Len(sub)) = sub

StartsWith(s, prefix) ==
    Len(prefix) <= Len(s) /\ SubSeq(s, 1, Len(prefix)) = prefix

EndsWith(s, suffix) ==
    Len(suffix) <= Len(s) /\ SubSeq(s, Len(s) - Len(suffix) + 1, Len(s)) = suffix

RECURSIVE Repeat(_, _)
Repeat(s, n) == IF n <= 0 THEN <<>> ELSE s \o Repeat(s, n - 1)

\* str(v) / f"{v}" for None, int, bool, str
PyStrOf(v) ==
    CASE v.t = "none" -> <<"N", "o", "n", "e">>
      [] v.t = "int"  -> StrInt(v.n)
      [] v.t = "bool" -> IF v.n = 1 THEN <<"T", "r", "u", "e">>
                                    ELSE <<"F", "a", "l", "s", "e">>
      [] v.t = "str"  -> v.s

\* a * b raises TypeError unless it is number*number or sequence*number
MulRaises(a, b) ==
    ~ \/ IsNum(a) /\ IsNum(b)
      \/ a.t \in {"str", "list"} /\ IsNum(b)
      \/ IsNum(a) /\ b.t \in {"str", "list"}

PyMul(a, b) ==
    CASE IsNum(a) /\ IsNum(b)    -> PyInt(a.n * b.n)
      [] a.t = "str" /\ IsNum(b) -> PyStr(Repeat(a.s, b.n))
      [] IsNum(a) /\ b.t = "str" -> PyStr(Repeat(b.s, a.n))
      [] a.t = "list" /\ IsNum(b) -> PyList(Repeat(a.e, b.n))
      [] IsNum(a) /\ b.t = "list" -> PyList(Repeat(b.e, a.n))

DigitChars == {"0", "1", "2", "3", "4", "5", "6", "7", "8", "9"}
DigitValue(c) == CHOOSE d \in 0..9 : DigitChar(d) = c

RECURSIVE ParseNat(_)
ParseNat(s) == IF s = <<>> THEN 0
               ELSE 10 * ParseNat(SubSeq(s, 1, Len(s) - 1)) + DigitValue(s[Len(s)])

\* int(v): raises TypeError for None/list/dict, ValueError for a string that
\* is not an optionally signed run of decimal digits (after stripping blanks)
IntBody(s) == IF s # <<>> /\ Head(s) \in {"+", "-"} THEN Tail(s) ELSE s

IntRaises(v) ==
    CASE v.t \in {"int", "bool"} -> FALSE
      [] v.t = "str" -> LET b == IntBody(Strip(v.s))
                        IN b = <<>> \/ \E i \in 1..Len(b) : b[i] \notin DigitChars
      [] OTHER -> TRUE

IntOf(v) ==
    CASE v.t \in {"int", "bool"} -> v.n
      [] v.t = "str" -> LET t == Strip(v.s)
                        IN IF Head(t) = "-" THEN 0 - ParseNat(IntBody(t))
                                            ELSE ParseNat(IntBody(t))

(* ----- validate.py helpers, lines 34-50 ----- *)
\* require(cond, errors, msg): the messages it appends
require(cond, msg) == IF cond THEN <<>> ELSE <<msg>>

is_int(x) == x.t \in {"int", "bool"} /\ x.t # "bool"

is_pos_int(x) == is_int(x) /\ x.n > 0

\* norm(s) = (s or "").strip(): raises AttributeError for a truthy non-string
normRaises(v) == Truthy(v) /\ v.t # "str"
norm(v) == IF Truthy(v) THEN Strip(v.s) ELSE <<>>

REQ_ROOT_KEYS == <<"id", "stem", "table", "graph", "equation_template", "tokens",
                   "answers", "explanation">>

MODES == [w |-> [x_name |-> <<"w", "e", "i", "g", "h", "t">>,
                 x_unit |-> <<"k", "g">>, x_unit_label |-> <<"k", "g">>],
          v |-> [x_name |-> <<"v", "o", "l", "u", "m", "e">>,
                 x_unit |-> <<"L">>, x_unit_label |-> <<"L">>],
          n |-> [x_name |-> <<"i", "t", "e", "m", "s">>,
                 x_unit |-> <<"p", "c", "s">>, x_unit_label |-> <<"p", "c">>]]

\* x_var in MODES, for the stripped string x_var
InModes(x_var) == Len(x_var) = 1 /\ x_var[1] \in DOMAIN MODES

(* ----- validate_item, lines 52-193 ----- *)
\* the "x" of "p=m x" in explanation.equation_str is the one character U+00D7
TimesChar == "U+00D7"

\* lines 55-58: one message per missing root key, in REQ_ROOT_KEYS order
missing_key_errs(it) ==
    LET missing == SelectSeq(REQ_ROOT_KEYS, LAMBDA k : ~HasKey(it, k))
    IN [i \in 1..Len(missing) |-> "missing key: " \o missing[i]]

\* lines 61-71, 86: what section 2 reads
Stem(it) == it.d.stem
Ctx(it) == Get(Stem(it), "context", EmptyDict)
CtxNorm(it, k) == norm(Get(Ctx(it), k, EmptyStr))
slope_m_of(it) == Get(Ctx(it), "slope_m", None)
CtxStrKeys == {"y_var", "y_name", "y_unit", "x_var", "x_name", "x_unit",
               "x_unit_label", "item_name"}

ContextRaises(it) ==
    \/ GetRaises(Stem(it))
    \/ GetRaises(Ctx(it))
    \/ \E k \in CtxStrKeys : normRaises(Get(Ctx(it), k, EmptyStr))
    \/ normRaises(Get(Stem(it), "prompt_text", EmptyStr))

\* lines 73-90
ContextErrs(it) ==
    LET y_var   == CtxNorm(it, "y_var")
        y_name  == CtxNorm(it, "y_name")
        y_unit  == CtxNorm(it, "y_unit")
        x_var   == CtxNorm(it, "x_var")
        x_name  == CtxNorm(it, "x_name")
        x_unit  == CtxNorm(it, "x_unit")
        x_ulab  == CtxNorm(it, "x_unit_label")
        item_nm == CtxNorm(it, "item_name")
        slope_m == slope_m_of(it)
        prompt_text == norm(Get(Stem(it), "prompt_text", EmptyStr))
        mode    == MODES[x_var[1]]
    IN require(y_var = <<"p">>, "y_var must be 'p'")
       \o require(Lower(y_name) = <<"p", "r", "i", "c", "e">>, "y_name must be 'price'")
       \o require(y_unit = <<"$">>, "y_unit must be '$'")
       \o require(InModes(x_var), "x_var must be one of ['w', 'v', 'n']")
       \o (IF InModes(x_var)
           THEN require(Lower(x_name) = mode.x_name, "x_name must be exp_name")
                \o require(x_unit = mode.x_unit, "x_unit must be exp_unit")
                \o require(x_ulab = mode.x_unit_label, "x_unit_label must be exp_lab")
           ELSE <<>>)
       \o require(item_nm # <<>>, "item_name empty")
       \o require(is_int(slope_m) /\ 1 <= slope_m.n /\ slope_m.n <= 20,
                  "slope_m must be int in [1..20]")
       \o require(Contains(<<"p">>, prompt_text)
                    \/ Contains(<<"p", "r", "i", "c", "e">>, Lower(prompt_text)),
                  "prompt must reference price/p")
       \o require(Contains(x_var, prompt_text) \/ Contains(x_name, Lower(prompt_text)),
                  "prompt must reference x_var/x_name")
       \o require(Contains(<<"$">>, prompt_text), "prompt should mention currency '$'")
       \o require(Contains(Lower(item_nm), Lower(prompt_text)),
                  "prompt should mention item_name")

\* lines 93-99: what section 3 reads
Table(it) == it.d.table
Cell(it, name) == Get(Table(it), name, EmptyDict)
CellValue(it, name) == Get(Cell(it, name), "value", None)
CellDisplay(it, name) == norm(Get(Cell(it, name), "display", EmptyStr))
CellNames == {"unit_price", "amount", "total"}

TableRaises(it) ==
    \/ GetRaises(Table(it))
    \/ \E name \in CellNames : GetRaises(Cell(it, name))
    \/ \E name \in CellNames : normRaises(Get(Cell(it, name), "display", EmptyStr))
    \/ /\ is_pos_int(CellValue(it, "total"))                       \* line 107
       /\ MulRaises(slope_m_of(it), CellValue(it, "amount"))

\* lines 101-110
TableErrs(it) ==
    LET slope_m  == slope_m_of(it)
        x_unit   == CtxNorm(it, "x_unit")
        x_ulab   == CtxNorm(it, "x_unit_label")
        up_val   == CellValue(it, "unit_price")
        up_disp  == CellDisplay(it, "unit_price")
        amt_val  == CellValue(it, "amount")
        amt_disp == CellDisplay(it, "amount")
        tot_val  == CellValue(it, "total")
        tot_disp == CellDisplay(it, "total")
    IN require(is_pos_int(up_val) /\ PyEq(up_val, slope_m),
               "unit_price.value must equal slope_m")
       \o require(StartsWith(up_disp, <<"$">>) /\ Contains(<<"/">> \o x_ulab, up_disp)
                    /\ Contains(PyStrOf(slope_m), up_disp),
                  "unit_price.display must include '$', slope_m, and '/{x_unit_label}'")
       \o require(is_pos_int(amt_val) /\ 1 <= amt_val.n /\ amt_val.n <= 10,
                  "amount.value must be 1..10")
       \o require(EndsWith(amt_disp, <<" ">> \o x_unit)
                    /\ Contains(PyStrOf(amt_val), amt_disp),
                  "amount.display must be '<amount> {x_unit}'")
       \o require(is_pos_int(tot_val) /\ PyEq(tot_val, PyMul(slope_m, amt_val)),
                  "total.value must equal slope_m * amount.value")
       \o require(StartsWith(tot_disp, <<"$">>) /\ Contains(PyStrOf(tot_val), tot_disp),
                  "total.display must start with '$' and include total value")

\* lines 113-117, 132: what section 4 reads
Graph(it) == it.d.graph
Axis(it, name) == Get(Graph(it), name, EmptyDict)
Ticks(it, name) == Get(Axis(it, name), "ticks", EmptyList)
AxisLabel(it, name) == norm(Get(Axis(it, name), "label", EmptyStr))
LinePoints(it) == Get(Graph(it), "line_points", EmptyList)

\* lines 125-126
inc_pos(seq) ==
    \A i \in 1..Len(seq) : is_pos_int(seq[i]) /\ (i = 1 \/ seq[i].n > seq[i - 1].n)

\* line 136 up to the product, and the product raising
pt_shape(p) == p.t = "list" /\ Len(p.e) = 2 /\ \A i \in 1..2 : is_int(p.e[i])
PtRaises(p, slope_m) == pt_shape(p) /\ MulRaises(slope_m, p.e[1])

pt_ok(p, slope_m) == pt_shape(p) /\ PyEq(p.e[2], PyMul(slope_m, p.e[1]))

\* line 124
BothFiveTicks(it) ==
    PyLen(Ticks(it, "x_axis")) = 5 /\ PyLen(Ticks(it, "y_axis")) = 5

GraphRaises(it) ==
    LET slope_m  == slope_m_of(it)
        x_ticks  == Ticks(it, "x_axis")
        y_ticks  == Ticks(it, "y_axis")
        line_pts == LinePoints(it)
    IN \/ GetRaises(Graph(it))
       \/ GetRaises(Axis(it, "x_axis"))
       \/ GetRaises(Axis(it, "y_axis"))
       \/ normRaises(Get(Axis(it, "x_axis"), "label", EmptyStr))
       \/ normRaises(Get(Axis(it, "y_axis"), "label", EmptyStr))
       \/ LenRaises(x_ticks)                                          \* line 124
       \/ (PyLen(x_ticks) = 5 /\ LenRaises(y_ticks))
       \/ (BothFiveTicks(it)                                        \* line 130
           /\ \E i \in 1..5 : MulRaises(slope_m, x_ticks.e[i]))
       \/ LenRaises(line_pts)                                         \* line 134
       \/ (PyLen(line_pts) = 2
           /\ \/ PtRaises(line_pts.e[1], slope_m)
              \/ (pt_ok(line_pts.e[1], slope_m) /\ PtRaises(line_pts.e[2], slope_m)))

\* line 129-130: one message per tick pair off the line
tick_pair_errs_none(x_ticks, y_ticks, slope_m) == <<>>

RECURSIVE tick_pair_errs_from(_, _, _, _)
tick_pair_errs_from(i, x_ticks, y_ticks, slope_m) ==
    IF i > 5 THEN <<>>
    ELSE require(PyEq(y_ticks[i], PyMul(slope_m, x_ticks[i])),
                 "y_ticks must equal slope_m * x_ticks")
         \o tick_pair_errs_from(i + 1, x_ticks, y_ticks, slope_m)

tick_pair_errs(x_ticks, y_ticks, slope_m) ==
    tick_pair_errs_from(1, x_ticks, y_ticks, slope_m)

\* lines 118-137
GraphErrs(it) ==
    LET slope_m  == slope_m_of(it)
        x_name   == CtxNorm(it, "x_name")
        x_unit   == CtxNorm(it, "x_unit")
        x_ticks  == Ticks(it, "x_axis")
        y_ticks  == Ticks(it, "y_axis")
        line_pts == LinePoints(it)
    IN require(Lower(AxisLabel(it, "x_axis"))
                 = Lower(x_name \o <<" ", "(">> \o x_unit \o <<")">>),
               "x_axis.label must match '{x_name} ({x_unit})'")
       \o require(Lower(AxisLabel(it, "y_axis"))
                    = <<"p", "r", "i", "c", "e", " ", "(", "$", ")">>,
                  "y_axis.label must be 'price ($)'")
       \o require(x_ticks.t = "list" /\ Len(x_ticks.e) = 5, "x_ticks must be length 5")
       \o require(y_ticks.t = "list" /\ Len(y_ticks.e) = 5, "y_ticks must be length 5")
       \o (IF BothFiveTicks(it)
           THEN require(inc_pos(x_ticks.e), "x_ticks must be positive increasing integers")
                \o require(inc_pos(y_ticks.e), "y_ticks must be positive increasing integers")
                \o tick_pair_errs(x_ticks.e, y_ticks.e, slope_m)
           ELSE <<>>)
       \o require(line_pts.t = "list" /\ Len(line_pts.e) = 2,
                  "line_points must have exactly 2 points")
       \o (IF PyLen(line_pts) = 2
           THEN require(pt_ok(line_pts.e[1], slope_m) /\ pt_ok(line_pts.e[2], slope_m)
                          /\ line_pts.e[1] # line_pts.e[2],
                        "line_points must lie on p=m*x and be distinct")
           ELSE <<>>)

\* lines 140, 143: what section 5 reads
eq_tmpl_of(it) == norm(Get(it, "equation_template", EmptyStr))
tokens_of(it) == Get(it, "tokens", EmptyList)
TokenGet(tok, k) == Get(tok, k, None)
TokenLabel(tok) == Get(tok, "label", EmptyStr)

Template1 == <<"_", " ", "=", " ", "_", " ", "*", " ", "_">>
Template2 == <<"_", " ", "*", " ", "_", " ", "=", " ", "_">>

TokensRaises(it) ==
    LET tokens == tokens_of(it)
    IN \/ normRaises(Get(it, "equation_template", EmptyStr))
       \/ /\ tokens.t = "list"                                        \* lines 146-152
          /\ \E i \in 1..Len(tokens.e) :
                GetRaises(tokens.e[i]) \/ Unhashable(TokenLabel(tokens.e[i]))
       \/ /\ tokens.t # "list"                                        \* line 166
          /\ (tokens.t \in {"none", "int", "bool"} \/ Truthy(tokens))

\* lines 151-158: the messages of the loop over the tokens, from token i on
RECURSIVE token_loop_errs(_, _, _)
token_loop_errs(i, toks, slope_m) ==
    IF i > Len(toks) THEN <<>>
    ELSE LET tok == toks[i]
             lbl == TokenLabel(tok)
             v   == TokenGet(tok, "value")
         IN require(\A j \in 1..(i - 1) : ~PyEq(TokenLabel(toks[j]), lbl),
                    "duplicate token label not allowed")
            \o (IF PyEq(TokenGet(tok, "type"), PyStr(<<"c", "o", "n", "s", "t">>))
                   /\ ~PyEq(TokenGet(tok, "label"), PyStr(PyStrOf(slope_m)))
                THEN require(is_int(v) /\ 1 <= v.n /\ v.n <= 20 /\ ~PyEq(v, slope_m),
                             "distractor const must be 1..20 and != slope_m")
                ELSE <<>>)
            \o token_loop_errs(i + 1, toks, slope_m)

\* lines 141-158
TokensErrs(it) ==
    LET slope_m == slope_m_of(it)
        x_var   == CtxNorm(it, "x_var")
        eq_tmpl == eq_tmpl_of(it)
        tokens  == tokens_of(it)
        IsTok(tok, type, label) ==
            /\ PyEq(TokenGet(tok, "type"), PyStr(type))
            /\ PyEq(TokenGet(tok, "label"), PyStr(label))
        has_p == \E i \in 1..Len(tokens.e) :
                    IsTok(tokens.e[i], <<"v", "a", "r">>, <<"p">>)
        has_x == \E i \in 1..Len(tokens.e) :
                    IsTok(tokens.e[i], <<"v", "a", "r">>, x_var)
        has_m == \E i \in 1..Len(tokens.e) :
                    /\ IsTok(tokens.e[i], <<"c", "o", "n", "s", "t">>, PyStrOf(slope_m))
                    /\ PyEq(TokenGet(tokens.e[i], "value"), slope_m)
    IN require(eq_tmpl \in {Template1, Template2},
               "equation_template must be '_ = _ * _' or '_ * _ = _'")
       \o require(tokens.t = "list" /\ 3 <= Len(tokens.e) /\ Len(tokens.e) <= 5,
                  "tokens must have 3..5 entries")
       \o (IF tokens.t = "list"
           THEN require(has_p /\ has_x /\ has_m,
                        "tokens must include var 'p', var x_var, and const slope_m")
                \o token_loop_errs(1, tokens.e, slope_m)
           ELSE <<>>)

\* lines 161-163: what section 6 reads
answers_of(it) == Get(it, "answers", EmptyDict)
fills_of(it) == Get(answers_of(it), "valid_fills", EmptyList)

\* line 166: sym in {t.get("label") for t in tokens}
InTokenLabels(sym, it) ==
    LET tokens == tokens_of(it)
    IN tokens.t = "list"
       /\ \E i \in 1..Len(tokens.e) : PyEq(TokenGet(tokens.e[i], "label"), sym)

AnswersRaises(it) ==
    LET fills == fills_of(it)
    IN \/ GetRaises(answers_of(it))
       \/ normRaises(Get(answers_of(it), "canonical_str", EmptyStr))
       \/ fills.t \in {"none", "int", "bool"}                         \* line 167
       \/ /\ fills.t = "list"
          /\ \E i \in 1..Len(fills.e) :
                \/ fills.e[i].t \in {"none", "int", "bool"}           \* line 169
                \/ /\ fills.e[i].t = "list"
                   /\ \E j \in 1..Len(fills.e[i].e) : Unhashable(fills.e[i].e[j])

\* lines 169-170: the messages for the symbols of one fill, from symbol j on
RECURSIVE fill_symbol_errs(_, _, _)
fill_symbol_errs(j, syms, it) ==
    IF j > Len(syms) THEN <<>>
    ELSE require(InTokenLabels(syms[j], it), "valid_fills symbol not in tokens")
         \o fill_symbol_errs(j + 1, syms, it)

\* lines 167-170: the messages of the loop over valid_fills, from fill i on
RECURSIVE fills_loop_errs(_, _, _)
fills_loop_errs(i, fs, it) ==
    IF i > Len(fs) THEN <<>>
    ELSE require(fs[i].t = "list" /\ Len(fs[i].e) = 3,
                 "each valid_fills entry must have 3 symbols")
         \o fill_symbol_errs(1, fs[i].e, it)
         \o fills_loop_errs(i + 1, fs, it)

\* lines 172-175: the two orderings the template requires
expect_main(eq_tmpl, slope_m, x_var) ==
    IF eq_tmpl = Template1
    THEN << <<PyStr(<<"p">>), PyStr(PyStrOf(slope_m)), PyStr(x_var)>>,
            <<PyStr(<<"p">>), PyStr(x_var), PyStr(PyStrOf(slope_m))>> >>
    ELSE << <<PyStr(PyStrOf(slope_m)), PyStr(x_var), PyStr(<<"p">>)>>,
            <<PyStr(x_var), PyStr(PyStrOf(slope_m)), PyStr(<<"p">>)>> >>

\* line 177: ex in fills
FillPresent(ex, fs) ==
    \E i \in 1..Len(fs) : fs[i].t = "list" /\ fs[i].e = ex

\* lines 165-182
AnswersErrs(it) ==
    LET slope_m == slope_m_of(it)
        x_var   == CtxNorm(it, "x_var")
        fills   == fills_of(it)
        canon   == norm(Get(answers_of(it), "canonical_str", EmptyStr))
        expect  == expect_main(eq_tmpl_of(it), slope_m, x_var)
    IN require(fills.t = "list" /\ Len(fills.e) >= 2,
               "answers.valid_fills must include both orientations")
       \o fills_loop_errs(1, fills.e, it)
       \o require(FillPresent(expect[1], fills.e), "valid_fills must include expect_main[0]")
       \o require(FillPresent(expect[2], fills.e), "valid_fills must include expect_main[1]")
       \o require(canon \in {<<"p", "=">> \o PyStrOf(slope_m) \o <<"*">> \o x_var,
                             PyStrOf(slope_m) \o <<"*">> \o x_var \o <<"=", "p">>},
                  "answers.canonical_str must be 'p=m*x' or 'm*x=p'")

\* line 185: what section 7 reads
expl_of(it) == Get(it, "explanation", EmptyDict)

ExplanationRaises(it) ==
    LET e_txt == norm(Get(expl_of(it), "text", EmptyStr))
    IN \/ GetRaises(expl_of(it))
       \/ normRaises(Get(expl_of(it), "equation_str", EmptyStr))
       \/ normRaises(Get(expl_of(it), "text", EmptyStr))
       \/ /\ ~Contains(<<"$">>, e_txt)                                \* line 190
          /\ ~Contains(PyStrOf(slope_m_of(it)), e_txt)
          /\ Get(Ctx(it), "x_unit_label", EmptyStr).t # "str"

\* lines 186-191
ExplanationErrs(it) ==
    LET slope_m == slope_m_of(it)
        x_var   == CtxNorm(it, "x_var")
        eq_str  == norm(Get(expl_of(it), "equation_str", EmptyStr))
        e_txt   == norm(Get(expl_of(it), "text", EmptyStr))
        rate_ok == \/ Contains(<<"$">>, e_txt)
                   \/ Contains(PyStrOf(slope_m), e_txt)
                   \/ Contains(<<"p", "e", "r", " ">>
                               \o Get(Ctx(it), "x_unit_label", EmptyStr).s, e_txt)
    IN require(eq_str = <<"p", "=">> \o PyStrOf(slope_m) \o <<TimesChar>> \o x_var,
               "explanation.equation_str must be 'p=m x_var'")
       \o require(Contains(<<"p">>, e_txt) /\ Contains(x_var, e_txt),
                  "explanation.text must mention 'p' and x_var")
       \o require(rate_ok, "explanation.text should indicate price rate ($ or number)")

\* an exception leaves validate_item (nothing in it catches one)
ItemRaises(it) ==
    \/ ContextRaises(it)
    \/ TableRaises(it)
    \/ GraphRaises(it)
    \/ TokensRaises(it)
    \/ AnswersRaises(it)
    \/ ExplanationRaises(it)

Raised == [raised |-> TRUE, ok |-> FALSE, errs |-> <<>>]
Returned(errs) == [raised |-> FALSE, ok |-> (Len(errs) = 0), errs |-> errs]

\* validate_item without the early return of line 58
validate_item_no_abort(it) ==
    IF it.t # "dict" THEN Raised
    ELSE IF missing_key_errs(it) # <<>>
         THEN Returned(missing_key_errs(it) \o <<"y_var must be 'p'">>)
    ELSE IF ItemRaises(it) THEN Raised
    ELSE Returned(ContextErrs(it) \o TableErrs(it) \o GraphErrs(it)
                  \o TokensErrs(it) \o AnswersErrs(it) \o ExplanationErrs(it))

\* lines 52-193: [raised |-> TRUE] when an exception leaves the call, else
\* the pair (ok, errs) it returns ("k in item" raises for None)
validate_item(it) ==
    IF it.t # "dict" THEN Raised
    ELSE IF missing_key_errs(it) # <<>> THEN Returned(missing_key_errs(it))
    ELSE IF ItemRaises(it) THEN Raised
    ELSE Returned(ContextErrs(it) \o TableErrs(it) \o GraphErrs(it)
                  \o TokensErrs(it) \o AnswersErrs(it) \o ExplanationErrs(it))

(***************************************************************************)
(* The records the validator is run on: well-formed price puzzle items as  *)
(* the generator's schema describes them (Writing-Equations/generate.py,   *)
(* lines 95-157), and the same items with one or two fields damaged.       *)
(***************************************************************************)
Bananas == <<"b", "a", "n", "a", "n", "a", "s">>
Milk == <<"m", "i", "l", "k">>

\* the item the schema describes for mode x_var, unit price m, amount a
BaseItem(id, x_var, m, a, item_name, eq_tmpl, distractor) ==
    LET mode == MODES[x_var]
        xv == <<x_var>>
        sm == StrInt(m)
        Tok(type, label) == PyDict([type |-> PyStr(type), label |-> PyStr(label)])
        Const(v) == PyDict([type |-> PyStr(<<"c", "o", "n", "s", "t">>),
                            label |-> PyStr(StrInt(v)), value |-> PyInt(v)])
        Fill(a1, a2, a3) == PyList(<<PyStr(a1), PyStr(a2), PyStr(a3)>>)
    IN PyDict([
        id   |-> PyStr(id),
        stem |-> PyDict([
            prompt_text |-> PyStr(<<"p", " ">> \o xv \o <<" ">> \o item_name
                                  \o <<" ", "$">> \o sm),
            context |-> PyDict([
                y_var |-> PyStr(<<"p">>),
                y_name |-> PyStr(<<"p", "r", "i", "c", "e">>),
                y_unit |-> PyStr(<<"$">>),
                x_var |-> PyStr(xv),
                x_name |-> PyStr(mode.x_name),
                x_unit |-> PyStr(mode.x_unit),
                x_unit_label |-> PyStr(mode.x_unit_label),
                item_name |-> PyStr(item_name),
                slope_m |-> PyInt(m)])]),
        table |-> PyDict([
            unit_price |-> PyDict([value |-> PyInt(m),
                display |-> PyStr(<<"$">> \o sm \o <<".", "0", "0", "/">>
                                  \o mode.x_unit_label)]),
            amount |-> PyDict([value |-> PyInt(a),
                display |-> PyStr(StrInt(a) \o <<" ">> \o mode.x_unit)]),
            total |-> PyDict([value |-> PyInt(m * a),
                display |-> PyStr(<<"$">> \o StrInt(m * a) \o <<".", "0", "0">>)])]),
        graph |-> PyDict([
            x_axis |-> PyDict([
                label |-> PyStr(mode.x_name \o <<" ", "(">> \o mode.x_unit \o <<")">>),
                ticks |-> PyList([i \in 1..5 |-> PyInt(2 * i)])]),
            y_axis |-> PyDict([
                label |-> PyStr(<<"p", "r", "i", "c", "e", " ", "(", "$", ")">>),
                ticks |-> PyList([i \in 1..5 |-> PyInt(m * 2 * i)])]),
            line_points |-> PyList(<<PyList(<<PyInt(0), PyInt(0)>>),
                                     PyList(<<PyInt(10), PyInt(10 * m)>>)>>)]),
        equation_template |-> PyStr(eq_tmpl),
        tokens |-> PyList(<<Const(m), Tok(<<"v", "a", "r">>, <<"p">>),
                            Tok(<<"v", "a", "r">>, xv), Const(distractor)>>),
        answers |-> PyDict([
            valid_fills |-> PyList(
                IF eq_tmpl = Template1
                THEN <<Fill(<<"p">>, sm, xv), Fill(<<"p">>, xv, sm)>>
                ELSE <<Fill(sm, xv, <<"p">>), Fill(xv, sm, <<"p">>)>>),
            canonical_str |-> PyStr(<<"p", "=">> \o sm \o <<"*">> \o xv)]),
        explanation |-> PyDict([
            equation_str |-> PyStr(<<"p", "=">> \o sm \o <<TimesChar>> \o xv),
            text |-> PyStr(<<"p", " ", "=", " ">> \o xv \o <<" ", "t", "i", "m", "e", "s", " ", "$">> \o sm)])])

DelKey(dict, k) == PyDict([j \in DOMAIN dict.d \ {k} |-> dict.d[j]])

BaseItems ==
    {BaseItem(<<"l", "i", "n", "-", "1">>, "w", 8, 2, Bananas, Template1, 5),
     BaseItem(<<"l", "i", "n", "-", "2">>, "v", 5, 4, Milk, Template2, 7)}

\* the value at a path of dict keys, None when the path leaves the dicts
RECURSIVE GetPath(_, _)
GetPath(v, path) ==
    IF path = <<>> THEN v
    ELSE IF v.t = "dict" /\ Head(path) \in DOMAIN v.d
         THEN GetPath(v.d[Head(path)], Tail(path))
         ELSE None

\* v with the value at an existing path replaced
RECURSIVE SetPath(_, _, _)
SetPath(v, path, new) ==
    IF path = <<>> THEN new
    ELSE IF v.t = "dict" /\ Head(path) \in DOMAIN v.d
         THEN PyDict([k \in DOMAIN v.d |->
                        IF k = Head(path) THEN SetPath(v.d[k], Tail(path), new)
                                          ELSE v.d[k]])
         ELSE v

\* v with the key at the end of an existing path removed
RECURSIVE DelPath(_, _)
DelPath(v, path) ==
    IF v.t # "dict" \/ Head(path) \notin DOMAIN v.d THEN v
    ELSE IF Len(path) = 1 THEN DelKey(v, Head(path))
    ELSE PyDict([k \in DOMAIN v.d |->
                   IF k = Head(path) THEN DelPath(v.d[k], Tail(path)) ELSE v.d[k]])

CtxPath(k) == <<"stem", "context", k>>

\* the ways one field of an item is damaged
Damages ==
    {"y_var_q", "x_var_z", "x_unit_padded", "x_unit_list", "x_unit_label_null",
     "item_name_caps", "item_name_null", "slope_absent", "slope_null", "slope_str",
     "slope_25", "slope_true", "slope_other", "prompt_short", "prompt_null",
     "stem_str", "context_absent",
     "total_display_off", "total_value_off", "amount_11", "amount_null",
     "unit_price_null", "total_absent",
     "x_ticks_4", "y_ticks_off", "y_ticks_desc", "y_ticks_null", "x_tick_null_elem",
     "line_off", "line_same", "line_null",
     "tmpl_bad", "tmpl_flip", "tokens_no_p", "tokens_dup", "tokens_6",
     "distractor_is_slope", "tokens_null", "token_null_elem",
     "fills_one", "fills_extra_distractor", "fills_extra_unknown", "fills_null",
     "fill_null_elem", "canon_bad", "canon_flip", "answers_null",
     "eq_str_star", "text_no_rate", "text_no_p", "explanation_null",
     "no_id", "no_table", "no_graph", "no_tokens", "no_stem"}

Damage(it, m) ==
    LET slope == GetPath(it, CtxPath("slope_m"))
        unit  == GetPath(it, CtxPath("x_unit"))
        xvar  == GetPath(it, CtxPath("x_var"))
        total == GetPath(it, <<"table", "total", "value">>)
        xt    == GetPath(it, <<"graph", "x_axis", "ticks">>)
        yt    == GetPath(it, <<"graph", "y_axis", "ticks">>)
        lp    == GetPath(it, <<"graph", "line_points">>)
        toks  == GetPath(it, <<"tokens">>)
        fills == GetPath(it, <<"answers", "valid_fills">>)
        tmpl  == GetPath(it, <<"equation_template">>)
        IfInt(v, new) == IF v.t = "int" THEN new ELSE it
        IfStr(v, new) == IF v.t = "str" THEN new ELSE it
        IfList(v, n, new) == IF v.t = "list" /\ Len(v.e) >= n THEN new ELSE it
    IN CASE m = "y_var_q" -> SetPath(it, CtxPath("y_var"), PyStr(<<"q">>))
         [] m = "x_var_z" -> SetPath(it, CtxPath("x_var"), PyStr(<<"z">>))
         [] m = "x_unit_padded" ->
                IfStr(unit, SetPath(it, CtxPath("x_unit"), PyStr(<<" ">> \o unit.s)))
         [] m = "x_unit_list" ->
                IfStr(unit, SetPath(it, CtxPath("x_unit"), PyList(<<unit>>)))
         [] m = "x_unit_label_null" -> SetPath(it, CtxPath("x_unit_label"), None)
         [] m = "item_name_caps" ->
                SetPath(it, CtxPath("item_name"),
                        PyStr(<<" ", "B", "a", "n", "a", "n", "a", "s", " ">>))
         [] m = "item_name_null" -> SetPath(it, CtxPath("item_name"), None)
         [] m = "slope_absent" -> DelPath(it, CtxPath("slope_m"))
         [] m = "slope_null" -> SetPath(it, CtxPath("slope_m"), None)
         [] m = "slope_str" ->
                IfInt(slope, SetPath(it, CtxPath("slope_m"), PyStr(StrInt(slope.n))))
         [] m = "slope_25" -> SetPath(it, CtxPath("slope_m"), PyInt(25))
         [] m = "slope_true" -> SetPath(it, CtxPath("slope_m"), PyBool(TRUE))
         [] m = "slope_other" ->
                IfInt(slope, SetPath(it, CtxPath("slope_m"), PyInt(slope.n + 1)))
         [] m = "prompt_short" -> SetPath(it, <<"stem", "prompt_text">>, PyStr(<<"p">>))
         [] m = "prompt_null" -> SetPath(it, <<"stem", "prompt_text">>, None)
         [] m = "stem_str" -> SetPath(it, <<"stem">>, PyStr(<<"x">>))
         [] m = "context_absent" -> DelPath(it, <<"stem", "context">>)
         [] m = "total_display_off" ->
                IfInt(total, SetPath(it, <<"table", "total", "display">>,
                        PyStr(<<"$">> \o StrInt(total.n - 1) \o <<".", "0", "0">>)))
         [] m = "total_value_off" ->
                IfInt(total, SetPath(it, <<"table", "total", "value">>,
                                     PyInt(total.n + 1)))
         [] m = "amount_11" -> SetPath(it, <<"table", "amount", "value">>, PyInt(11))
         [] m = "amount_null" -> SetPath(it, <<"table", "amount", "value">>, None)
         [] m = "unit_price_null" -> SetPath(it, <<"table", "unit_price">>, None)
         [] m = "total_absent" -> DelPath(it, <<"table", "total">>)
         [] m = "x_ticks_4" ->
                IfList(xt, 4, SetPath(it, <<"graph", "x_axis", "ticks">>,
                                      PyList(SubSeq(xt.e, 1, 4))))
         [] m = "y_ticks_off" ->
                IF yt.t = "list" /\ Len(yt.e) >= 3 /\ yt.e[3].t = "int"
                THEN SetPath(it, <<"graph", "y_axis", "ticks">>,
                             PyList([yt.e EXCEPT ![3] = PyInt(@.n + 1)]))
                ELSE it
         [] m = "y_ticks_desc" ->
                IfList(yt, 1, SetPath(it, <<"graph", "y_axis", "ticks">>,
                          PyList([i \in 1..Len(yt.e) |-> yt.e[Len(yt.e) + 1 - i]])))
         [] m = "y_ticks_null" -> SetPath(it, <<"graph", "y_axis", "ticks">>, None)
         [] m = "x_tick_null_elem" ->
                IfList(xt, 2, SetPath(it, <<"graph", "x_axis", "ticks">>,
                                      PyList([xt.e EXCEPT ![2] = None])))
         [] m = "line_off" ->
                IF lp.t = "list" /\ Len(lp.e) = 2 /\ lp.e[2].t = "list"
                   /\ Len(lp.e[2].e) = 2 /\ lp.e[2].e[2].t = "int"
                THEN SetPath(it, <<"graph", "line_points">>,
                        PyList(<<lp.e[1],
                                 PyList(<<lp.e[2].e[1], PyInt(lp.e[2].e[2].n + 1)>>)>>))
                ELSE it
         [] m = "line_same" ->
                IfList(lp, 1, SetPath(it, <<"graph", "line_points">>,
                                      PyList(<<lp.e[1], lp.e[1]>>)))
         [] m = "line_null" -> SetPath(it, <<"graph", "line_points">>, None)
         [] m = "tmpl_bad" ->
                SetPath(it, <<"equation_template">>,
                        PyStr(<<"_", " ", "+", " ", "_", " ", "=", " ", "_">>))
         [] m = "tmpl_flip" ->
                IfStr(tmpl, SetPath(it, <<"equation_template">>,
                        PyStr(IF tmpl.s = Template1 THEN Template2 ELSE Template1)))
         [] m = "tokens_no_p" ->
                IfList(toks, 2, SetPath(it, <<"tokens">>,
                        PyList(<<toks.e[1]>> \o SubSeq(toks.e, 3, Len(toks.e)))))
         [] m = "tokens_dup" ->
                IfList(toks, 1, SetPath(it, <<"tokens">>,
                                        PyList(Append(toks.e, toks.e[Len(toks.e)]))))
         [] m = "tokens_6" ->
                IfList(toks, 1, SetPath(it, <<"tokens">>,
                        PyList(toks.e \o <<
                           PyDict([type |-> PyStr(<<"c", "o", "n", "s", "t">>),
                                   label |-> PyStr(<<"1", "1">>), value |-> PyInt(11)]),
                           PyDict([type |-> PyStr(<<"c", "o", "n", "s", "t">>),
                                   label |-> PyStr(<<"1", "2">>), value |-> PyInt(12)])>>)))
         [] m = "distractor_is_slope" ->
                IF toks.t = "list" /\ Len(toks.e) >= 4 /\ toks.e[4].t = "dict"
                   /\ slope.t = "int"
                THEN SetPath(it, <<"tokens">>,
                        PyList([toks.e EXCEPT ![4] = SetPath(@, <<"value">>, slope)]))
                ELSE it
         [] m = "tokens_null" -> SetPath(it, <<"tokens">>, None)
         [] m = "token_null_elem" ->
                IfList(toks, 4, SetPath(it, <<"tokens">>,
                                        PyList([toks.e EXCEPT ![4] = None])))
         [] m = "fills_one" ->
                IfList(fills, 1, SetPath(it, <<"answers", "valid_fills">>,
                                         PyList(<<fills.e[1]>>)))
         [] m = "fills_extra_distractor" ->
                IF fills.t = "list" /\ toks.t = "list" /\ Len(toks.e) >= 4
                   /\ toks.e[4].t = "dict" /\ xvar.t = "str"
                THEN SetPath(it, <<"answers", "valid_fills">>,
                        PyList(Append(fills.e,
                            PyList(<<PyStr(<<"p">>), TokenLabel(toks.e[4]), xvar>>))))
                ELSE it
         [] m = "fills_extra_unknown" ->
                IfList(fills, 0, SetPath(it, <<"answers", "valid_fills">>,
                        PyList(Append(fills.e,
                            PyList(<<PyStr(<<"p">>), PyStr(<<"9", "9">>)>>)))))
         [] m = "fills_null" -> SetPath(it, <<"answers", "valid_fills">>, None)
         [] m = "fill_null_elem" ->
                IfList(fills, 0, SetPath(it, <<"answers", "valid_fills">>,
                                         PyList(Append(fills.e, None))))
         [] m = "canon_bad" ->
                SetPath(it, <<"answers", "canonical_str">>, PyStr(<<"p", "=", "m", "*", "x">>))
         [] m = "canon_flip" ->
                IF slope.t = "int" /\ xvar.t = "str"
                THEN SetPath(it, <<"answers", "canonical_str">>,
                        PyStr(StrInt(slope.n) \o <<"*">> \o xvar.s \o <<"=", "p">>))
                ELSE it
         [] m = "answers_null" -> SetPath(it, <<"answers">>, None)
         [] m = "eq_str_star" ->
                IF slope.t = "int" /\ xvar.t = "str"
                THEN SetPath(it, <<"explanation", "equation_str">>,
                        PyStr(<<"p", "=">> \o StrInt(slope.n) \o <<"*">> \o xvar.s))
                ELSE it
         [] m = "text_no_rate" ->
                IfStr(xvar, SetPath(it, <<"explanation", "text">>,
                                    PyStr(<<"p", " ">> \o xvar.s)))
         [] m = "text_no_p" -> SetPath(it, <<"explanation", "text">>, PyStr(<<"$">>))
         [] m = "explanation_null" -> SetPath(it, <<"explanation">>, None)
         [] m = "no_id" -> DelPath(it, <<"id">>)
         [] m = "no_table" -> DelPath(it, <<"table">>)
         [] m = "no_graph" -> DelPath(it, <<"graph">>)
         [] m = "no_tokens" -> DelPath(it, <<"tokens">>)
         [] m = "no_stem" -> DelPath(it, <<"stem">>)

\* the records validate_item is called on: well-formed, one field damaged,
\* two fields damaged, and a JSON null in place of a record
ItemPool ==
    BaseItems
    \cup {Damage(b, m) : b \in BaseItems, m \in Damages}
    \cup {Damage(Damage(b, m1), m2) : b \in BaseItems, m1 \in Damages, m2 \in Damages}
    \cup {None}

(* ----- dedupe_items, lines 197-212 ----- *)
\* lines 203-204 raise (and line 205 catches): a missing key, a subscript of
\* a non-dict, .lower() of a non-string, int() of a non-number
KeyRaises(it) ==
    \/ it.t # "dict" \/ ~HasKey(it, "stem")
    \/ it.d.stem.t # "dict" \/ ~HasKey(it.d.stem, "context")
    \/ LET c == it.d.stem.d.context
       IN \/ c.t # "dict"
          \/ ~HasKey(c, "item_name") \/ c.d.item_name.t # "str"
          \/ ~HasKey(c, "x_unit")
          \/ ~HasKey(c, "slope_m") \/ IntRaises(c.d.slope_m)

\* line 204
key_of(it) ==
    LET c == it.d.stem.d.context
    IN <<Strip(Lower(c.d.item_name.s)), c.d.x_unit, IntOf(c.d.slope_m)>>

\* tuple equality, as "key in seen" decides it
KeyEq(k1, k2) == k1[1] = k2[1] /\ PyEq(k1[2], k2[2]) /\ k1[3] = k2[3]

\* the loop of lines 201-211 from item i on; "key in seen" (line 207) hashes
\* the key outside the try block, and a list or dict x_unit cannot be hashed
RECURSIVE dedupe_from(_, _, _, _, _)
dedupe_from(i, its, seen, kept, dropped) ==
    IF i > Len(its) THEN [raised |-> FALSE, kept |-> kept, dropped |-> dropped]
    ELSE IF KeyRaises(its[i])
         THEN dedupe_from(i + 1, its, seen, Append(kept, its[i]), dropped)
    ELSE IF Unhashable(key_of(its[i])[2])
         THEN [raised |-> TRUE, kept |-> <<>>, dropped |-> 0]
    ELSE IF \E j \in 1..Len(seen) : KeyEq(seen[j], key_of(its[i]))
         THEN dedupe_from(i + 1, its, seen, kept, dropped + 1)
    ELSE dedupe_from(i + 1, its, Append(seen, key_of(its[i])), Append(kept, its[i]), dropped)

\* a de-duplication that drops nothing
dedupe_nothing(its) == [raised |-> FALSE, kept |-> its, dropped |-> 0]

dedupe_items(its) == dedupe_from(1, its, <<>>, <<>>, 0)

(* ----- main, lines 216-266 ----- *)
NotWritten == [done |-> FALSE, content |-> <<>>]

\* line 239: str(it.get("id", "<no-id>"))
id_of(it) == PyStrOf(Get(it, "id", PyStr(<<"<", "n", "o", "-", "i", "d", ">">>)))

\* line 233; an exception leaving dedupe_items ends the process
Dedupe ==
    /\ pc = "start"
    /\ LET r == dedupe_items(input)
       IN IF r.raised
          THEN /\ pc' = "crashed"
               /\ UNCHANGED <<items, dropped_dupes>>
          ELSE /\ pc' = "loop"
               /\ items' = r.kept
               /\ dropped_dupes' = r.dropped
    /\ UNCHANGED <<gen_vars, agent_vars, price_vars, item_vars, input, passed, failed,
                   idx, written, run>>

\* lines 236-239: one iteration of the loop over the de-duplicated items; an
\* exception leaving validate_item ends the process (nothing catches it)
ValidateNext ==
    /\ pc = "loop"
    /\ idx < Len(items)
    /\ LET it == items[idx + 1]
           r == validate_item(it)
       IN IF r.raised
          THEN /\ pc' = "crashed"
               /\ UNCHANGED <<passed, failed, idx>>
          ELSE /\ pc' = "loop"
               /\ idx' = idx + 1
               /\ passed' = IF r.ok THEN Append(passed, it) ELSE passed
               /\ failed' = IF r.ok THEN failed
                            ELSE Append(failed, [id |-> id_of(it), reasons |-> r.errs])
    /\ UNCHANGED <<gen_vars, agent_vars, price_vars, item_vars, input, items,
                   dropped_dupes, written, run>>

\* lines 242-246: json.dump(passed) to the temporary file, moved to out_path
WritePassed ==
    /\ pc = "loop"
    /\ idx = Len(items)
    /\ written' = [done |-> TRUE, content |-> passed]
    /\ pc' = "done"
    /\ UNCHANGED <<gen_vars, agent_vars, price_vars, item_vars, input, items,
                   dropped_dupes, passed, failed, idx, run>>

\* the validator started again on the file it wrote (lines 227-229 read it
\* back: json.loads of json.dump gives the same values for JSON data)
RunAgain ==
    /\ pc = "done"
    /\ run = 1
    /\ run' = 2
    /\ input' = written.content
    /\ pc' = "start"
    /\ items' = <<>>
    /\ dropped_dupes' = 0
    /\ passed' = <<>>
    /\ failed' = <<>>
    /\ idx' = 0
    /\ written' = NotWritten
    /\ UNCHANGED <<gen_vars, agent_vars, price_vars, item_vars>>

(***************************************************************************)
(* validate_item called on one record.                                     *)
(***************************************************************************)
GenIdle ==
    /\ difficulty = "easy" /\ draw = [kind |-> "none"] /\ puzzle = NoPuzzle
    /\ AgentIdle
    /\ PriceIdle

MainIdle ==
    /\ pc = "idle" /\ input = <<>> /\ items = <<>> /\ dropped_dupes = 0
    /\ passed = <<>> /\ failed = <<>> /\ idx = 0 /\ written = NotWritten /\ run = 0

NotCalled == [called |-> FALSE, raised |-> FALSE, ok |-> FALSE, errs |-> <<>>]

ItemInit ==
    /\ item \in ItemPool
    /\ result = NotCalled
    /\ GenIdle
    /\ MainIdle

\* line 237: ok, reasons = validate_item(it)
CallValidate ==
    /\ ~result.called
    /\ LET r == validate_item(item)
       IN result' = [called |-> TRUE, raised |-> r.raised, ok |-> r.ok, errs |-> r.errs]
    /\ UNCHANGED <<gen_vars, agent_vars, price_vars, item, main_vars>>

ItemNext == CallValidate

ItemSpec == ItemInit /\ [][ItemNext]_vars

(***************************************************************************)
(* The validator run on a batch, and run again on what it wrote.           *)
(***************************************************************************)
MaxBatch == 3

Lin1 == BaseItem(<<"l", "i", "n", "-", "1">>, "w", 8, 2, Bananas, Template1, 5)
Lin2 == BaseItem(<<"l", "i", "n", "-", "2">>, "v", 5, 4, Milk, Template2, 7)

\* items a batch file holds: well-formed ones, two spellings of one item, a
\* padded unit, and items damaged below the top level or at it
BatchPool ==
    {SetPath(Lin1, CtxPath("item_name"), PyStr(<<"B", "a", "n", "a", "n", "a", "s">>)),
     Lin1,
     Lin2,
     Damage(Lin1, "x_unit_padded"),
     Damage(Lin1, "x_unit_list"),
     Damage(Lin2, "slope_null"),
     Damage(Lin2, "total_value_off"),
     Damage(Lin1, "no_stem")}

Batches == UNION {[1..n -> BatchPool] : n \in 0..MaxBatch}

\* lines 227-229: the JSON array read from the input file
MainInit ==
    /\ input \in Batches
    /\ pc = "start"
    /\ run = 1
    /\ items = <<>> /\ dropped_dupes = 0 /\ passed = <<>> /\ failed = <<>>
    /\ idx = 0 /\ written = NotWritten
    /\ item = None /\ result = NotCalled
    /\ GenIdle

MainNext == Dedupe \/ ValidateNext \/ WritePassed \/ RunAgain

MainSpec == MainInit /\ [][MainNext]_vars

(***************************************************************************)
(* Properties of validate_item on one record.                              *)
(***************************************************************************)
IsNumber(v, n) == v.t \in {"int", "bool"} /\ v.n = n

OnLine(p, m) ==
    /\ p.t = "list" /\ Len(p.e) = 2
    /\ p.e[1].t = "int" /\ IsNumber(p.e[2], m * p.e[1].n)

\* C5: on every record for which validate_item returns pass=True, slope_m
\* is an integer in 1..20, total.value = slope_m * amount.value, both tick
\* lists have 5 entries with y_ticks[i] = slope_m * x_ticks[i] for every i,
\* and both line points [x, y] have y = slope_m * x.
C5_PassImpliesArithmetic ==
    (result.called /\ ~result.raised /\ result.ok) =>
        LET m   == GetPath(item, CtxPath("slope_m"))
            amt == GetPath(item, <<"table", "amount", "value">>)
            tot == GetPath(item, <<"table", "total", "value">>)
            xt  == GetPath(item, <<"graph", "x_axis", "ticks">>)
            yt  == GetPath(item, <<"graph", "y_axis", "ticks">>)
            lp  == GetPath(item, <<"graph", "line_points">>)
        IN /\ m.t = "int" /\ m.n \in 1..20
           /\ amt.t = "int" /\ IsNumber(tot, m.n * amt.n)
           /\ xt.t = "list" /\ Len(xt.e) = 5
           /\ yt.t = "list" /\ Len(yt.e) = 5
           /\ \A i \in 1..5 : xt.e[i].t = "int" /\ IsNumber(yt.e[i], m.n * xt.e[i].n)
           /\ lp.t = "list" /\ Len(lp.e) = 2
           /\ \A j \in 1..2 : OnLine(lp.e[j], m.n)

C5_Witness ==
    /\ result.called /\ result.ok
    /\ GetPath(item, CtxPath("slope_m")) = PyInt(5)
    /\ GetPath(item, <<"table", "total", "value">>) = PyInt(20)

RootKeySet ==
    {"id", "stem", "table", "graph", "equation_template", "tokens", "answers",
     "explanation"}

MissingRootKeys(it) == {k \in RootKeySet : ~HasKey(it, k)}

\* C6: for a record that has all required top-level fields, validate_item
\* returns a verdict with the list of violated rules (no rule stops the
\* evaluation of the later ones), and the verdict is True exactly when the
\* list is empty.
C6_AllRulesCollected ==
    (result.called /\ item.t = "dict" /\ MissingRootKeys(item) = {}) =>
        /\ ~result.raised
        /\ result.ok <=> (result.errs = <<>>)

\* C7: a record that lacks required top-level fields gets pass=False with
\* exactly one 'missing key' message per missing field and no other message.
C7_MissingKeysOnly ==
    (result.called /\ item.t = "dict" /\ MissingRootKeys(item) # {}) =>
        /\ ~result.raised
        /\ ~result.ok
        /\ Len(result.errs) = Cardinality(MissingRootKeys(item))
        /\ \A k \in MissingRootKeys(item) :
              \E i \in 1..Len(result.errs) : result.errs[i] = "missing key: " \o k

\* a record without table whose slope_m is null as well
C7_Witness ==
    /\ result.called /\ item.t = "dict"
    /\ MissingRootKeys(item) = {"table"}
    /\ GetPath(item, CtxPath("slope_m")) = None
    /\ result.errs = <<"missing key: table">>

(***************************************************************************)
(* Properties of the batch run.                                            *)
(***************************************************************************)
\* C8: the batch run reaches a verdict for every item that remains after
\* de-duplication: the loop over the kept items is never abandoned with
\* items left, whatever an item holds below the top level.
C8_EveryKeptItemGetsVerdict == ~(pc = "crashed" /\ items # <<>>)

\* the indices the stated de-duplication keeps: items without an extractable
\* key, and the first item of each key
KeptIndices(its) ==
    {i \in 1..Len(its) :
        \/ KeyRaises(its[i])
        \/ ~\E j \in 1..(i - 1) :
               ~KeyRaises(its[j]) /\ KeyEq(key_of(its[j]), key_of(its[i]))}

RECURSIVE Restrict(_, _, _)
Restrict(its, keep, i) ==
    IF i > Len(its) THEN <<>>
    ELSE (IF i \in keep THEN <<its[i]>> ELSE <<>>) \o Restrict(its, keep, i + 1)

\* C9: dedupe_items over any batch returns (kept, dropped): kept is the
\* input in order without the items whose key equals the key of an earlier
\* item, items without an extractable key are kept, and dropped is
\* len(input) - len(kept).
C9_DedupeKeepsFirstOfEachKey ==
    /\ ~(pc = "crashed" /\ items = <<>>)
    /\ pc \in {"loop", "done"} =>
          /\ items = Restrict(input, KeptIndices(input), 1)
          /\ dropped_dupes = Len(input) - Len(items)

\* C10: the passed-output never holds two items with the same key and every
\* item of it validates again with no violation; the run on the passed-output
\* of the previous run drops no duplicate and passes every item.
C10_RerunIdempotent ==
    /\ written.done =>
          LET out == written.content
          IN /\ \A i \in 1..Len(out) : ~KeyRaises(out[i])
             /\ \A i, j \in 1..Len(out) :
                   i < j => ~KeyEq(key_of(out[i]), key_of(out[j]))
             /\ \A i \in 1..Len(out) :
                   ~validate_item(out[i]).raised /\ validate_item(out[i]).errs = <<>>
    /\ (run = 2 /\ pc # "start") =>
          /\ pc # "crashed"
          /\ dropped_dupes = 0
          /\ failed = <<>>
          /\ items = input
    /\ (run = 2 /\ pc = "done") => passed = input /\ written.content = input

C10_Witness == run = 2 /\ pc = "done" /\ Len(passed) = 3

(***************************************************************************)
(* Properties of the records the three strategies return.                  *)
(***************************************************************************)
\* the operator written between the two blanks of a template
TemplateOps(tmpl) == {tmpl[i] : i \in 1..Len(tmpl)} \cap {">", "<"}

\* C15: the inequality record of every generated puzzle, under all three
\* strategies, has an op field that is '>' or '<' and is the operator of the
\* item's template string.
C15_InequalityCarriesOp ==
    (puzzle.kind # "none") =>
        /\ "op" \in DOMAIN puzzle.inequality
        /\ puzzle.inequality.op \in {">", "<"}
        /\ TemplateOps(puzzle.ineq_template) = {puzzle.inequality.op}

\* C18: in the difficult strategy d = (weights[1] - weights[0]) / k is
\* exactly +offset or -offset, the gap int(|d| - 1) is offset - 1 and lies in
\* 1..3, and the two weight constants of the escalated inequality,
\* weight_offset and gap + weight_offset, are distinct.
C18_GapIsOffsetMinusOne ==
    (puzzle.kind = "difficult") =>
        LET w0  == puzzle.equality.left.weight
            w1  == puzzle.equality.right.weight
            gap == puzzle.inequality.right.weight - puzzle.inequality.left.weight
        IN /\ (w1 - w0 = draw.k1 * draw.w_offset) \/ (w1 - w0 = draw.k1 * (0 - draw.w_offset))
           /\ gap = draw.w_offset - 1
           /\ gap \in 1..3
           /\ puzzle.inequality.left.weight = draw.weight_offset
           /\ puzzle.inequality.right.weight # puzzle.inequality.left.weight
           /\ puzzle.ineq_template =
                  IF draw.escalated
                  THEN <<"_", "+", draw.shapes[3], "+">> \o StrInt(draw.weight_offset)
                       \o <<">", "_", "+", draw.shapes[3], "+">>
                       \o StrInt(draw.w_offset - 1 + draw.weight_offset)
                  ELSE <<"_", ">", "_", "+">> \o StrInt(draw.w_offset - 1)

\* an escalated puzzle with k = 3, the weights swapped and the largest offset
C18_Witness ==
    /\ puzzle.kind = "difficult"
    /\ draw.k1 = 3 /\ draw.w_offset = 4 /\ draw.swap /\ draw.escalated
    /\ puzzle.inequality.left.weight = 5 /\ puzzle.inequality.right.weight = 8

\* C19: the answer of an easy puzzle is a pair of two distinct symbols, both
\* among the two symbols the equality compares (never the third), and the
\* inequality has answer[0] once on the left, answer[1] once on the right,
\* every other coefficient 0 and both side weights 0.
C19_EasyInequalityAgrees ==
    (puzzle.kind \in {"proportional", "weighted"}) =>
        LET ans == puzzle.answer
            ineq == puzzle.inequality
        IN /\ Len(ans) = 2 /\ ans[1] # ans[2]
           /\ {ans[1], ans[2]} = {draw.shapes[1], draw.shapes[2]}
           /\ draw.shapes[3] \notin {ans[1], ans[2]}
           /\ \A sh \in ShapeSet :
                 /\ ineq.left.shapes[sh] = (IF sh = ans[1] THEN 1 ELSE 0)
                 /\ ineq.right.shapes[sh] = (IF sh = ans[2] THEN 1 ELSE 0)
           /\ ineq.left.weight = 0 /\ ineq.right.weight = 0

\* a proportional puzzle with the shared term present and operator '<'
C19_Witness ==
    /\ puzzle.kind = "proportional"
    /\ draw.addZ /\ draw.op = "<" /\ draw.k1 < draw.k2
    /\ puzzle.answer = <<draw.shapes[2], draw.shapes[1]>>
    /\ puzzle.inequality.left.shapes[draw.shapes[2]] = 1

(***************************************************************************)
(* Tilted-Scales/generate.py, lines 284-351: the batch call of the agent,  *)
(* the merge of its response and the write of the output file.             *)
(***************************************************************************)
MaxCount == 2

\* the puzzle the loop of lines 206-215 appended at position i
SamplePuzzle(d, i) ==
    IF d = "easy"
    THEN (IF i % 2 = 1
          THEN easy_puzzle_proportional_equality(<<"s", "t", "c">>, 2, 3, FALSE, 0, ">")
          ELSE easy_puzzle_weighted_equality(<<"t", "c", "s">>, 1, 4, 2, "<"))
    ELSE difficult_puzzle_weighted_equality(<<"s", "t", "c">>, 1 + (i % 3), 1, 2,
                                            i % 2 = 0, i % 2 = 1,
                                            IF i % 2 = 1 THEN 3 ELSE 0)

\* one element of the array the agent is asked for
Element(index, explanation, reasoned_answer) ==
    PyDict([index |-> index, explanation |-> explanation,
            reasoned_answer |-> reasoned_answer])

\* elements an agent response can hold: as asked for, without index, with a
\* text that is not a string, with an index of another type, not an object
ElementPool ==
    {Element(PyInt(1), PyStr(<<" ", "a", " ">>), PyStr(<<"s", ">", "t">>)),
     Element(PyInt(2), PyStr(<<"b">>), PyStr(<<"t", ">", "s">>)),
     PyDict([explanation |-> PyStr(<<"c">>), reasoned_answer |-> PyStr(<<"d">>)]),
     Element(PyInt(1), PyInt(5), PyStr(<<"e">>)),
     Element(PyStr(<<"1">>), PyStr(<<"f">>), PyStr(<<"g">>)),
     PyDict([index |-> PyInt(1), explanation |-> None]),
     PyInt(3),
     Element(PyBool(TRUE), PyStr(<<"h">>), PyStr(<<"i">>)),
     Element(PyList(<<PyInt(1)>>), PyStr(<<"j">>), PyStr(<<"k">>))}

NotJson == [json |-> FALSE, value |-> None]
Json(v) == [json |-> TRUE, value |-> v]

\* what res.stdout can hold: text that json.loads rejects, a JSON value that
\* is not an array, or an array of elements
Responses ==
    {NotJson, Json(None), Json(PyInt(7)), Json(PyStr(<<"o", "k">>)),
     Json(Element(PyInt(1), PyStr(<<"a">>), PyStr(<<"b">>)))}
    \cup {Json(PyList(arr)) : arr \in UNION {[1..n -> ElementPool] : n \in 0..MaxCount}}

\* lines 318-319: (obj.get(k) or "").strip(); a truthy value that is not a
\* string has no strip and raises AttributeError
TextRaises(obj, k) ==
    LET v == Get(obj, k, None) IN Truthy(v) /\ v.t # "str"

text_of(obj, k) ==
    LET v == Get(obj, k, None) IN IF Truthy(v) THEN Strip(v.s) ELSE <<>>

\* lines 317-320 raise: a text field that cannot be stripped, or an index
\* that cannot be a dict key
EntryRaises(obj) ==
    \/ TextRaises(obj, "explanation")
    \/ TextRaises(obj, "reasoned_answer")
    \/ Unhashable(obj.d.index)

\* lines 318-319
entry_of(obj) ==
    [explanation |-> text_of(obj, "explanation"),
     reasoned_answer |-> text_of(obj, "reasoned_answer")]

\* the dict key of line 317: True and 1 are the same key
DictKey(k) == IF k.t = "bool" THEN PyInt(k.n) ELSE k

\* an entry keyed by the element's position in the array instead
entry_key_by_position(obj, pos) == PyInt(pos)

\* line 317: the key is obj["index"]
entry_key(obj, pos) == DictKey(obj.d.index)

NoExplanations == [k \in {} |-> None]

\* d[k] = v
Put(d, k, v) == [x \in (DOMAIN d) \cup {k} |-> IF x = k THEN v ELSE d[x]]

\* the loop of lines 315-320 from element j on; an exception ends it (line
\* 321) and the entries stored so far stay
RECURSIVE merge_from(_, _, _)
merge_from(arr, j, expl) ==
    IF j > Len(arr) THEN expl
    ELSE IF arr[j].t # "dict" \/ ~HasKey(arr[j], "index")
         THEN merge_from(arr, j + 1, expl)
    ELSE IF EntryRaises(arr[j]) THEN expl
    ELSE merge_from(arr, j + 1, Put(expl, entry_key(arr[j], j), entry_of(arr[j])))

\* lines 311-323: explanations after a call that returned with status 0
explanations_of(stdout) ==
    IF ~stdout.json THEN NoExplanations
    ELSE IF stdout.value.t # "list" THEN NoExplanations
    ELSE merge_from(stdout.value.e, 1, NoExplanations)

NoInfo == [explanation |-> <<>>, reasoned_answer |-> <<>>]

\* line 334 falling back to any stored entry
info_for_any(expl, i) ==
    IF PyInt(i) \in DOMAIN expl THEN expl[PyInt(i)]
    ELSE IF DOMAIN expl # {} THEN expl[CHOOSE k \in DOMAIN expl : TRUE]
    ELSE NoInfo

\* line 334: explanations.get(i, {"explanation": "", "reasoned_answer": ""})
info_for(expl, i) == IF PyInt(i) \in DOMAIN expl THEN expl[PyInt(i)] ELSE NoInfo

\* i formatted with :03d
Pad3(i) ==
    IF i < 10 THEN <<"0", "0">> \o StrNat(i)
    ELSE IF i < 100 THEN <<"0">> \o StrNat(i)
    ELSE StrNat(i)

\* line 336: f"{difficulty}-{i:03d}"
item_id(d, i) == <<d, "-">> \o Pad3(i)

\* lines 335-344
final_item(d, i, p, info) ==
    [id              |-> item_id(d, i),
     difficulty      |-> d,
     equality        |-> p.equality,
     inequality      |-> p.inequality,
     ineq_template   |-> p.ineq_template,
     answer          |-> p.answer,
     explanation     |-> info.explanation,
     reasoned_answer |-> info.reasoned_answer]

\* lines 305-309, 327-329: subprocess.run raises (the agent cannot be started)
AgentNotStarted ==
    /\ gpc = "call"
    /\ agent' = [kind |-> "not_started", stdout |-> NotJson]
    /\ explanations' = NoExplanations
    /\ gpc' = "merge"
    /\ UNCHANGED <<gen_vars, count, puzzles, gen_items, out_file, price_vars,
                   item_vars, main_vars>>

\* lines 310, 324-326: the agent exits with a non-zero status
AgentExitsNonZero ==
    /\ gpc = "call"
    /\ \E out \in Responses : agent' = [kind |-> "nonzero", stdout |-> out]
    /\ explanations' = NoExplanations
    /\ gpc' = "merge"
    /\ UNCHANGED <<gen_vars, count, puzzles, gen_items, out_file, price_vars,
                   item_vars, main_vars>>

\* lines 310-323: the agent exits with status 0 and its output is parsed
AgentReturns ==
    /\ gpc = "call"
    /\ \E out \in Responses :
          /\ agent' = [kind |-> "returned", stdout |-> out]
          /\ explanations' = explanations_of(out)
    /\ gpc' = "merge"
    /\ UNCHANGED <<gen_vars, count, puzzles, gen_items, out_file, price_vars,
                   item_vars, main_vars>>

\* lines 332-344
BuildItems ==
    /\ gpc = "merge"
    /\ gen_items' = [i \in 1..count |->
                        final_item(difficulty, i, puzzles[i], info_for(explanations, i))]
    /\ gpc' = "write"
    /\ UNCHANGED <<gen_vars, count, puzzles, agent, explanations, out_file, price_vars,
                   item_vars, main_vars>>

\* lines 347-351
WriteOutput ==
    /\ gpc = "write"
    /\ out_file' = [done |-> TRUE, content |-> gen_items]
    /\ gpc' = "done"
    /\ UNCHANGED <<gen_vars, count, puzzles, agent, explanations, gen_items, price_vars,
                   item_vars, main_vars>>

\* the script after the puzzle loop (line 215), before the batch call
AgentInit ==
    /\ difficulty \in {"easy", "difficult"}
    /\ draw = [kind |-> "none"] /\ puzzle = NoPuzzle
    /\ count \in 1..MaxCount
    /\ puzzles = [i \in 1..count |-> SamplePuzzle(difficulty, i)]
    /\ agent = [kind |-> "none", stdout |-> NotJson]
    /\ explanations = NoExplanations /\ gen_items = <<>>
    /\ out_file = [done |-> FALSE, content |-> <<>>]
    /\ gpc = "call"
    /\ PriceIdle
    /\ ValIdle

AgentNext ==
    AgentNotStarted \/ AgentExitsNonZero \/ AgentReturns \/ BuildItems \/ WriteOutput

AgentSpec == AgentInit /\ [][AgentNext]_vars

\* the call of the agent has an outcome and the script runs on
AgentLiveSpec == AgentSpec /\ WF_vars(AgentNext)

(***************************************************************************)
(* Properties of the batch call and merge.                                 *)
(***************************************************************************)
\* the array the agent returned, empty when there is none
ResponseArray ==
    IF agent.kind = "returned" /\ agent.stdout.json /\ agent.stdout.value.t = "list"
    THEN agent.stdout.value.e
    ELSE <<>>

\* obj is an object whose index equals i
HasIndex(obj, i) == obj.t = "dict" /\ HasKey(obj, "index") /\ PyEq(obj.d.index, PyInt(i))

UsableFor(i) == \E j \in 1..Len(ResponseArray) : HasIndex(ResponseArray[j], i)

\* item it carries the text of response element obj
CarriesTextOf(it, obj) ==
    /\ ~TextRaises(obj, "explanation") /\ ~TextRaises(obj, "reasoned_answer")
    /\ it.explanation = text_of(obj, "explanation")
    /\ it.reasoned_answer = text_of(obj, "reasoned_answer")

Defaulted(it) == it.explanation = <<>> /\ it.reasoned_answer = <<>>

\* C11: whatever the outcome of the agent call, the run ends by writing the
\* output file with exactly count items, and every item without an agent
\* element of its index has explanation "" and reasoned_answer "".
C11_AlwaysWritesCountItems ==
    /\ <>(gpc = "done")
    /\ [](gpc = "done" =>
            /\ out_file.done
            /\ Len(out_file.content) = count
            /\ \A i \in 1..count : ~UsableFor(i) => Defaulted(out_file.content[i]))

\* the agent printed text that is not JSON and two items were written
C11_Witness ==
    /\ gpc = "done" /\ count = 2
    /\ agent.kind = "returned" /\ ~agent.stdout.json
    /\ out_file.done /\ Len(out_file.content) = 2

\* C13: in the written output either every item carries the agent's text
\* for its index or every item has explanation "" and reasoned_answer "".
C13_AllOrNothing ==
    (gpc = "done") =>
        \/ \A i \in 1..count : Defaulted(out_file.content[i])
        \/ \A i \in 1..count :
              \E j \in 1..Len(ResponseArray) :
                  /\ HasIndex(ResponseArray[j], i)
                  /\ CarriesTextOf(out_file.content[i], ResponseArray[j])

\* C17: the output holds count items in generation order, item i with id
\* '<difficulty>-<i as 3 digits>' and the equality, inequality, template and
\* answer of puzzle i; its two text fields are empty or come from a response
\* element whose index equals i.
C17_AgentSetsOnlyText ==
    (gpc = "done") =>
        /\ out_file.done
        /\ Len(out_file.content) = count
        /\ \A i \in 1..count :
              LET it == out_file.content[i]
              IN /\ DOMAIN it = {"id", "difficulty", "equality", "inequality",
                                 "ineq_template", "answer", "explanation",
                                 "reasoned_answer"}
                 /\ it.id = <<difficulty, "-", "0", "0", DigitChar(i)>>
                 /\ it.difficulty = difficulty
                 /\ it.equality = puzzles[i].equality
                 /\ it.inequality = puzzles[i].inequality
                 /\ it.ineq_template = puzzles[i].ineq_template
                 /\ it.answer = puzzles[i].answer
                 /\ \/ Defaulted(it)
                    \/ \E j \in 1..Len(ResponseArray) :
                          /\ HasIndex(ResponseArray[j], i)
                          /\ CarriesTextOf(it, ResponseArray[j])

\* the response lists index 2 before index 1 (given as true) and each item
\* takes the text of its own index
C17_Witness ==
    /\ gpc = "done" /\ count = 2
    /\ Len(ResponseArray) = 2
    /\ HasIndex(ResponseArray[1], 2) /\ HasIndex(ResponseArray[2], 1)
    /\ out_file.content[1].explanation = <<"h">>
    /\ out_file.content[2].explanation = <<"b">>

(***************************************************************************)
(* Writing-Equations/generate.py: call_claude and main.                    *)
(***************************************************************************)
\* the agent's output is a text of at most MaxRaw characters
MaxRaw == 4

RawChars == {"[", "]", "1", ",", "x"}
RawOutputs == UNION {[1..n -> RawChars] : n \in 0..MaxRaw}

\* str.find / str.rfind, 0-based, -1 when the character is absent
find(s, ch) ==
    IF \E i \in 1..Len(s) : s[i] = ch
    THEN (CHOOSE i \in 1..Len(s) : s[i] = ch /\ \A j \in 1..(i - 1) : s[j] # ch) - 1
    ELSE -1

rfind(s, ch) ==
    IF \E i \in 1..Len(s) : s[i] = ch
    THEN (CHOOSE i \in 1..Len(s) : s[i] = ch /\ \A j \in (i + 1)..Len(s) : s[j] # ch) - 1
    ELSE -1

\* json.loads on texts made of brackets, commas and digits: a value is a
\* number or an array of values; [ok |-> FALSE] stands for JSONDecodeError
ParseFail == [ok |-> FALSE, next |-> 0, val |-> None]

RECURSIVE digits_end(_, _)
digits_end(s, i) == IF i <= Len(s) /\ s[i] \in DigitChars THEN digits_end(s, i + 1) ELSE i

RECURSIVE parse_value(_, _), parse_elems(_, _, _)
parse_value(s, i) ==
    IF i > Len(s) THEN ParseFail
    ELSE IF s[i] \in DigitChars
         THEN [ok |-> TRUE, next |-> digits_end(s, i),
               val |-> PyInt(ParseNat(SubSeq(s, i, digits_end(s, i) - 1)))]
    ELSE IF s[i] = "["
         THEN (IF i + 1 <= Len(s) /\ s[i + 1] = "]"
               THEN [ok |-> TRUE, next |-> i + 2, val |-> PyList(<<>>)]
               ELSE parse_elems(s, i + 1, <<>>))
    ELSE ParseFail

parse_elems(s, i, acc) ==
    LET v == parse_value(s, i)
    IN IF ~v.ok \/ v.next > Len(s) THEN ParseFail
       ELSE IF s[v.next] = "]"
            THEN [ok |-> TRUE, next |-> v.next + 1, val |-> PyList(Append(acc, v.val))]
       ELSE IF s[v.next] = ","
            THEN parse_elems(s, v.next + 1, Append(acc, v.val))
       ELSE ParseFail

json_loads(s) ==
    LET v == parse_value(s, 1)
    IN IF v.ok /\ v.next = Len(s) + 1 THEN v ELSE ParseFail

\* lines 284-288: the text from the first "[" to the last "]", parsed; the
\* assert of line 286 and json.loads both raise into line 289
extract_items(raw) ==
    LET start == find(raw, "[")
        end   == rfind(raw, "]")
    IN IF start # -1 /\ end # -1 /\ end > start
       THEN json_loads(SubSeq(raw, start + 1, end + 1))
       ELSE ParseFail

\* the statuses a failing agent process exits with
ExitCodes == {1, 2}

NoAgent == [kind |-> "none", stdout |-> <<>>, returncode |-> 0]

\* lines 263-269: the executable is not found, die(..., 127)
CliNotFound ==
    /\ ppc = "call"
    /\ price_agent' = [kind |-> "not_found", stdout |-> <<>>, returncode |-> 0]
    /\ price_exit' = 127
    /\ ppc' = "died"
    /\ UNCHANGED <<gen_vars, agent_vars, price_items, price_file, item_vars, main_vars>>

\* lines 264-267: subprocess.run raises an exception that is not
\* FileNotFoundError; nothing catches it and the interpreter exits with 1
CliRaises ==
    /\ ppc = "call"
    /\ price_agent' = [kind |-> "raised", stdout |-> <<>>, returncode |-> 0]
    /\ price_exit' = 1
    /\ ppc' = "died"
    /\ UNCHANGED <<gen_vars, agent_vars, price_items, price_file, item_vars, main_vars>>

\* lines 271-272: a non-zero status, die(..., res.returncode)
CliFails ==
    /\ ppc = "call"
    /\ \E code \in ExitCodes, raw \in RawOutputs :
          /\ price_agent' = [kind |-> "nonzero", stdout |-> raw, returncode |-> code]
          /\ price_exit' = code
    /\ ppc' = "died"
    /\ UNCHANGED <<gen_vars, agent_vars, price_items, price_file, item_vars, main_vars>>

\* line 273, line 280: status 0, raw = res.stdout.strip()
CliReturns ==
    /\ ppc = "call"
    /\ \E raw \in RawOutputs :
          price_agent' = [kind |-> "returned", stdout |-> Strip(raw), returncode |-> 0]
    /\ ppc' = "parse"
    /\ UNCHANGED <<gen_vars, agent_vars, price_items, price_file, price_exit,
                   item_vars, main_vars>>

\* lines 283-290: the array is extracted, or die(..., 5)
ParseOutput ==
    /\ ppc = "parse"
    /\ LET r == extract_items(price_agent.stdout)
       IN IF r.ok
          THEN /\ price_items' = r.val.e
               /\ ppc' = "write"
               /\ UNCHANGED price_exit
          ELSE /\ price_exit' = 5
               /\ ppc' = "died"
               /\ UNCHANGED price_items
    /\ UNCHANGED <<gen_vars, agent_vars, price_agent, price_file, item_vars, main_vars>>

\* lines 293-298
WritePrice ==
    /\ ppc = "write"
    /\ price_file' = [done |-> TRUE, content |-> price_items]
    /\ ppc' = "done"
    /\ UNCHANGED <<gen_vars, agent_vars, price_agent, price_items, price_exit,
                   item_vars, main_vars>>

\* line 279: main is entered
PriceInit ==
    /\ difficulty = "easy" /\ draw = [kind |-> "none"] /\ puzzle = NoPuzzle
    /\ AgentIdle
    /\ price_agent = NoAgent /\ price_items = <<>>
    /\ price_file = [done |-> FALSE, content |-> <<>>]
    /\ price_exit = 0 /\ ppc = "call"
    /\ ValIdle

PriceNext ==
    CliNotFound \/ CliRaises \/ CliFails \/ CliReturns \/ ParseOutput \/ WritePrice

PriceSpec == PriceInit /\ [][PriceNext]_vars

\* C12: a non-zero exit of the agent process, or output from which no JSON
\* array can be parsed, does not abort the price generator: the run still
\* completes and writes its output.
C12_DegradesWithoutAbort ==
    ~(ppc = "died" /\ price_agent.kind \in {"nonzero", "returned"})

(***************************************************************************)
(* Properties of the validator, continued.                                 *)
(***************************************************************************)
\* the two correct fillings of a template with 'p', the slope label and x_var
CorrectFills(tmpl, m, x_var) ==
    IF tmpl = <<"_", " ", "=", " ", "_", " ", "*", " ", "_">>
    THEN {<<PyStr(<<"p">>), PyStr(m), PyStr(x_var)>>,
          <<PyStr(<<"p">>), PyStr(x_var), PyStr(m)>>}
    ELSE {<<PyStr(m), PyStr(x_var), PyStr(<<"p">>)>>,
          <<PyStr(x_var), PyStr(m), PyStr(<<"p">>)>>}

\* C16: on every record for which validate_item returns pass=True, every
\* entry of answers.valid_fills is one of the two orderings of 'p', the
\* slope_m label and x_var that the equation_template requires.
C16_EveryFillCorrect ==
    (result.called /\ ~result.raised /\ result.ok) =>
        LET fills == GetPath(item, <<"answers", "valid_fills">>)
            tmpl  == Strip(GetPath(item, <<"equation_template">>).s)
            m     == StrInt(GetPath(item, CtxPath("slope_m")).n)
            x_var == Strip(GetPath(item, CtxPath("x_var")).s)
        IN \A i \in 1..Len(fills.e) :
              /\ fills.e[i].t = "list"
              /\ fills.e[i].e \in CorrectFills(tmpl, m, x_var)

\* C14: the batch run puts every de-duplicated item in exactly one of passed
\* and failed, so len(passed) + len(failed) is the number of de-duplicated
\* items, and the passed-output written is the sub-sequence, in order, of the
\* de-duplicated items on which validate_item returned True.
C14_PartitionsKeptItems ==
    (pc \in {"done", "crashed"} /\ items # <<>>) =>
        /\ Len(passed) + Len(failed) = Len(items)
        /\ written.done
        /\ written.content =
              Restrict(items, {i \in 1..Len(items) : validate_item(items[i]).ok}, 1)

====
